---- MODULE Spec2Model ----
(***************************************************************************)
(* A model of the fleet behavioural-simulation and scheduling engine of    *)
(* docker/control-api: ProxyManager (proxy_manager.py), DeviceGenerator    *)
(* (device_generator.py), LifeSimulator (life_simulator.py) and JobManager *)
(* (job_manager.py).  Each component owns its variables and has its own    *)
(* specification (SpecProxy, SpecDevice, SpecPersona, SpecActive, SpecJob);*)
(* a component's specification leaves the other components' variables at  *)
(* their initial values.                                                   *)
(*                                                                         *)
(* Not modelled: credentials, timestamps, log lines and the JSON snapshot  *)
(* files (they are written by every mutation and read only at process      *)
(* construction, which is the initial state here).                         *)
(***************************************************************************)
EXTENDS Integers, Sequences, FiniteSets, TLC

VARIABLES
    \* ProxyManager
    heap,               \* the ProxyInfo objects alive: object id -> fields
    proxies,            \* self.proxies: list of object ids (the candidate pool)
    proxy_assignments,  \* self.assignments: phone -> object id
    probing,            \* object ids with a check_proxy call suspended in its HTTP probe
    check_all,          \* a check_all_proxies call: its gate, its tasks and what it
                        \* returned (<<>>: none)
    \* DeviceGenerator
    device_assignments, \* self.assignments: phone -> DeviceInfo
    used_combinations,  \* self.used_combinations
    ceiling_hit,        \* history: some generation since the last clear ran out of attempts
    device_returned,    \* history: what the last call for a phone returned, and what
                        \* the first call for each phone since the last clear returned
    \* LifeSimulator
    personas,           \* self.personas: phone -> Persona
    rng_memo,           \* the draws of random.Random(seed) met so far: phone -> stream
    persona_returned,   \* history: phone -> what get_persona last returned, and
                        \* whether that was a repeated call
    active_call,        \* history: the last should_be_active call and its result
    \* JobManager
    job_objs,           \* the Job objects created so far: job id -> fields
    jobs,               \* self.jobs: the ids of the live set
    history,            \* self.history: list of job ids (the objects are shared)
    scheduler,          \* self.scheduler: FALSE for None (apscheduler missing)
    scheduler_jobs,     \* the job ids that have a trigger in the scheduler
    runs,               \* the _execute_job coroutines started so far, in order
    last_attempted,     \* history: job id -> list position of the action whose
                        \* outcome was recorded last (0: none yet)
    warmup_call,        \* history: a create_warmup_job call with its arguments
                        \* and the id of the job it returned (<<>>: none)
    assign_call,        \* history: the last assign_proxy_to_phone, auto_assign_proxies
                        \* or clear_assignments call, with what it returned
    \* the auto-chat loop (main.py)
    auto_chat_active,   \* auto_chat_active: group id -> flag
    loops,              \* the run_auto_chat_loop tasks started so far, in order:
                        \* their arguments, locals and the await they are in
    \* the job history of a long-lived JobManager (job_manager.py)
    history_count,      \* len(self.history)
    history_file,       \* the number of jobs in jobs_history.json
    \* the transport session of a job run (job_manager.py)
    exec                \* one run of _execute_job followed through the awaits
                        \* of _execute_action: position, client, open sessions

proxyVars   == <<heap, proxies, proxy_assignments, probing, check_all>>
deviceVars  == <<device_assignments, used_combinations, ceiling_hit, device_returned>>
personaVars == <<personas, rng_memo, persona_returned>>
activeVars  == <<active_call>>
jobVars     == <<job_objs, jobs, history, scheduler, scheduler_jobs, runs, last_attempted,
                 warmup_call>>
chatVars    == <<auto_chat_active, loops>>
assignVars  == <<assign_call>>
archiveVars == <<history_count, history_file>>
execVars    == <<exec>>
vars == <<proxyVars, deviceVars, personaVars, activeVars, jobVars, chatVars, assignVars,
         archiveVars, execVars>>

nonProxyVars   == <<deviceVars, personaVars, activeVars, jobVars, chatVars, assignVars, archiveVars,
                    execVars>>
nonDeviceVars  == <<proxyVars, personaVars, activeVars, jobVars, chatVars, assignVars, archiveVars,
                    execVars>>
nonPersonaVars == <<proxyVars, deviceVars, activeVars, jobVars, chatVars, assignVars, archiveVars,
                    execVars>>
nonActiveVars  == <<proxyVars, deviceVars, personaVars, jobVars, chatVars, assignVars, archiveVars,
                    execVars>>
nonJobVars     == <<proxyVars, deviceVars, personaVars, activeVars, chatVars, assignVars, archiveVars,
                    execVars>>
nonChatVars    == <<proxyVars, deviceVars, personaVars, activeVars, jobVars, assignVars, archiveVars,
                    execVars>>
nonAssignVars  == <<deviceVars, personaVars, activeVars, jobVars, chatVars, archiveVars,
                    execVars>>
nonArchiveVars == <<proxyVars, deviceVars, personaVars, activeVars, jobVars, chatVars,
                    assignVars, execVars>>
nonExecVars    == <<proxyVars, deviceVars, personaVars, activeVars, jobVars, chatVars,
                    assignVars, archiveVars>>

\* ---------------------------------------------------------------- helpers

Range(f) == {f[x] : x \in DOMAIN f}

RECURSIVE SetToSeq(_)
\* The elements of a finite set of integers, in increasing order.
SetToSeq(S) ==
    IF S = {} THEN <<>>
    ELSE LET m == CHOOSE x \in S : \A y \in S : x <= y
         IN  <<m>> \o SetToSeq(S \ {m})

SeqsUpTo(S, n) == UNION {[1..k -> S] : k \in 0..n}

\* Python's None, for string-valued fields
NoPhone == "None"

\* ================================================================ ProxyManager

MaxLines == 2       \* lines in one uploaded text

\* The accounts, in a fixed order
ProxyPhoneList == <<"100", "200">>
ProxyPhones == Range(ProxyPhoneList)

\* Object ids.  Python's object identity is kept up to renaming: after every
\* operation the objects are renumbered, the pool's first (in list order),
\* then those only the assignments hold (in account order).
ObjIds == 1..(MaxLines + Len(ProxyPhoneList))

\* The lines of an uploaded text, each already split at ':'.
PortValue == [p \in {"1080", "1081"} |-> IF p = "1080" THEN 1080 ELSE 1081]
TextLines == {
    <<"10.0.0.1", "1080", "user", "pass">>,
    <<"10.0.0.2", "1080", "user", "pass">>,
    <<"10.0.0.2", "http", "user", "pass">>,
    <<"10.0.0.3", "1080", "user">> }

\* line.split(':') with at least four parts and int(parts[1]) not raising
ParsesAsProxy(parts) == Len(parts) >= 4 /\ parts[2] \in DOMAIN PortValue

ProxyInfo(parts) ==
    [ip |-> parts[1], port |-> PortValue[parts[2]],
     status |-> "unknown", assigned_to |-> NoPhone]

RECURSIVE Dedup(_)
\* A sequence without its repeated elements (the first occurrence is kept).
Dedup(s) ==
    IF s = <<>> THEN <<>>
    ELSE LET d == Dedup(SubSeq(s, 1, Len(s) - 1))
         IN  IF s[Len(s)] \in Range(d) THEN d ELSE Append(d, s[Len(s)])

\* The objects the manager still references, in the order that numbers them.
Referenced(pool, asg) ==
    LET held == [i \in 1..Len(ProxyPhoneList) |->
                    IF ProxyPhoneList[i] \in DOMAIN asg THEN asg[ProxyPhoneList[i]] ELSE 0]
    IN  Dedup(pool \o SelectSeq(held, LAMBDA o : o # 0))

\* The renaming of the referenced objects to 1..n.
Renaming(pool, asg) ==
    LET r == Referenced(pool, asg)
    IN  [o \in Range(r) |-> CHOOSE i \in 1..Len(r) : r[i] = o]

\* The state after an operation: unreferenced objects are garbage (a probe
\* suspended on one can change nothing the manager reaches) and the rest is
\* renumbered.
Settle(h, pool, asg, inflight) ==
    LET ren == Renaming(pool, asg)
        r   == Referenced(pool, asg)
    IN  /\ heap' = [i \in 1..Len(r) |-> h[r[i]]]
        /\ proxies' = [i \in 1..Len(pool) |-> ren[pool[i]]]
        /\ proxy_assignments' = [p \in DOMAIN asg |-> ren[asg[p]]]
        /\ probing' = {ren[o] : o \in inflight \cap Range(r)}
        /\ UNCHANGED check_all
        /\ UNCHANGED nonProxyVars

NoCall ==
    [op |-> "none", phones |-> <<>>, proxy |-> 0, result |-> 0, tick |-> FALSE,
     again |-> FALSE]

ProxyInit ==
    /\ heap = <<>>
    /\ proxies = <<>>
    /\ proxy_assignments = <<>>
    /\ probing = {}
    /\ check_all = <<>>
    /\ assign_call = NoCall

\* load_proxies_from_text: the pool is replaced by fresh ProxyInfo objects,
\* one per line that parses; the assignments are not touched.
load_proxies_from_text(text) ==
    LET good  == SelectSeq(text, ParsesAsProxy)
        kept  == Range(proxy_assignments)
        fresh == SetToSeq(ObjIds \ kept)
        pool  == [i \in 1..Len(good) |-> fresh[i]]
        h     == [o \in kept \cup Range(pool) |->
                    IF o \in Range(pool)
                    THEN ProxyInfo(good[CHOOSE i \in 1..Len(good) : pool[i] = o])
                    ELSE heap[o]]
    IN  Settle(h, pool, proxy_assignments, probing \cap kept)

\* get_free_proxy, on a given heap and assignments: the object id, or 0 for None
get_free_proxy(h, pool, asg) ==
    LET assigned_ips == {h[asg[p]].ip : p \in DOMAIN asg}
        alive == {i \in 1..Len(pool) :
                    h[pool[i]].ip \notin assigned_ips /\ h[pool[i]].status = "alive"}
        free  == {i \in 1..Len(pool) : h[pool[i]].ip \notin assigned_ips}
        First(S) == pool[CHOOSE i \in S : \A j \in S : i <= j]
    IN  IF alive # {} THEN First(alive)
        ELSE IF free # {} THEN First(free)
        ELSE 0

\* assign_proxy_to_phone as a function of the state: <<heap, assignments, result>>.
\* proxy = 0 stands for proxy=None.
AssignResult(h, pool, asg, phone, proxy) ==
    LET chosen == IF proxy = 0 THEN get_free_proxy(h, pool, asg) ELSE proxy
    IN  IF chosen = 0 THEN <<h, asg, 0>>
        ELSE <<[h EXCEPT ![chosen].assigned_to = phone],
               [p \in DOMAIN asg \cup {phone} |-> IF p = phone THEN chosen ELSE asg[p]],
               chosen>>

assign_proxy_to_phone(phone, proxy) ==
    LET r == AssignResult(heap, proxies, proxy_assignments, phone, proxy)
    IN  Settle(r[1], proxies, r[2], probing)

\* d[phone] = proxy on the dict d
DictSet(d, phone, proxy) ==
    [p \in DOMAIN d \cup {phone} |-> IF p = phone THEN proxy ELSE d[p]]

RECURSIVE AutoAssignFrom_NoSkip(_, _, _, _, _)
\* The loop without its test `phone in self.assignments`.
AutoAssignFrom_NoSkip(h, pool, asg, phones, assigned) ==
    IF phones = <<>> THEN <<h, asg, assigned>>
    ELSE LET phone == Head(phones)
             r == AssignResult(h, pool, asg, phone, 0)
         IN  AutoAssignFrom_NoSkip(r[1], pool, r[2], Tail(phones),
                                   IF r[3] = 0 THEN assigned
                                   ELSE DictSet(assigned, phone, r[3]))

RECURSIVE AutoAssignFrom(_, _, _, _, _)
\* The loop of auto_assign_proxies over the phones left, with the dict
\* assigned so far: <<heap, assignments, assigned>> at its end.
AutoAssignFrom(h, pool, asg, phones, assigned) ==
    IF phones = <<>> THEN <<h, asg, assigned>>
    ELSE LET phone == Head(phones)
         IN  IF phone \in DOMAIN asg
             THEN AutoAssignFrom(h, pool, asg, Tail(phones),
                                 DictSet(assigned, phone, asg[phone]))
             ELSE LET r == AssignResult(h, pool, asg, phone, 0)
                  IN  AutoAssignFrom(r[1], pool, r[2], Tail(phones),
                                     IF r[3] = 0 THEN assigned
                                     ELSE DictSet(assigned, phone, r[3]))

\* auto_assign_proxies as a function of the state: <<heap, assignments, assigned>>
AutoAssign(h, pool, asg, phones) == AutoAssignFrom(h, pool, asg, phones, <<>>)

auto_assign_proxies(phones) ==
    LET r == AutoAssign(heap, proxies, proxy_assignments, phones)
    IN  Settle(r[1], proxies, r[2], probing)

\* clear_assignments on the heap: assigned_to is reset on the pool's proxies
ClearedHeap(h, pool) ==
    [o \in DOMAIN h |->
        IF o \in Range(pool) THEN [h[o] EXCEPT !.assigned_to = NoPhone] ELSE h[o]]

ProxyManager_clear_assignments ==
    Settle(ClearedHeap(heap, proxies), proxies, <<>>, probing)

\* check_proxy up to its first suspension: the blocking connect_ex decides
\* dead at once, or the call suspends in the authenticated HTTP probe.
CheckProxyConnect(o, reachable) ==
    /\ o \in Range(proxies)
    /\ o \notin probing
    /\ IF reachable
       THEN /\ heap' = [heap EXCEPT ![o].status = "checking"]
            /\ probing' = probing \cup {o}
       ELSE /\ heap' = [heap EXCEPT ![o].status = "dead"]
            /\ UNCHANGED probing
    /\ UNCHANGED <<proxies, proxy_assignments>>
    /\ UNCHANGED nonProxyVars

\* The HTTP probe's outcome: status 200 and an exception both mark the proxy
\* alive; another response status leaves the with-blocks and reaches line 221.
HttpOutcomes == {"200", "other_status", "exception"}

\* other_status with status checking kept: line 221 not reached.
CheckProxyHttp_NoFallThrough(o, outcome) ==
    /\ o \in probing
    /\ probing' = probing \ {o}
    /\ heap' = [heap EXCEPT ![o].status =
                  IF outcome = "other_status" THEN "checking" ELSE "alive"]
    /\ UNCHANGED <<proxies, proxy_assignments>>
    /\ UNCHANGED nonProxyVars

CheckProxyHttp(o, outcome) ==
    /\ o \in probing
    /\ probing' = probing \ {o}
    /\ heap' = [heap EXCEPT ![o].status =
                  IF outcome = "other_status" THEN "dead" ELSE "alive"]
    /\ UNCHANGED <<proxies, proxy_assignments>>
    /\ UNCHANGED nonProxyVars

\* A check_proxy call on its own
check_proxy_connect(o, reachable) ==
    /\ CheckProxyConnect(o, reachable)
    /\ UNCHANGED check_all

check_proxy_http(o, outcome) ==
    /\ CheckProxyHttp(o, outcome)
    /\ UNCHANGED check_all

\* check_all_proxies.  gather starts one task per proxy of the pool; a task
\* enters the semaphore when a permit is free, runs check_proxy and leaves
\* the semaphore with check_proxy's result.  The code's gate is Semaphore(10);
\* the gates 1 and 2 make it bind on the pools here.
MaxPool == 3
Semaphore == 10
Gates == {1, 2, Semaphore}

PoolIps == <<"10.0.0.1", "10.0.0.2", "10.0.0.3", "10.0.0.4", "10.0.0.5">>

\* A pool of n proxies as load_proxies_from_text leaves it, nothing assigned
CheckAllInit ==
    \E n \in {k \in 0..MaxPool : k <= Len(PoolIps)} :
        /\ heap = [i \in 1..n |-> ProxyInfo(<<PoolIps[i], "1080", "user", "pass">>)]
        /\ proxies = [i \in 1..n |-> i]
        /\ proxy_assignments = <<>>
        /\ probing = {}
        /\ check_all = <<>>
        /\ assign_call = NoCall

Counts(results) ==
    LET alive == Cardinality({i \in DOMAIN results : results[i] = "True"})
    IN  [alive |-> alive, dead |-> Len(results) - alive, total |-> Len(proxies)]

\* The call up to its await of gather (an empty pool returns at once)
check_all_proxies(gate) ==
    /\ check_all = <<>>
    /\ check_all' =
          IF proxies = <<>>
          THEN <<[gate |-> gate, pool |-> <<>>, tasks |-> <<>>, reached |-> <<>>,
                  returned |-> TRUE,
                  result |-> [alive |-> 0, dead |-> 0, total |-> 0]]>>
          ELSE <<[gate |-> gate, pool |-> proxies,
                  tasks |-> [i \in 1..Len(proxies) |-> "created"],
                  reached |-> [i \in 1..Len(proxies) |-> FALSE],
                  returned |-> FALSE,
                  result |-> [alive |-> 0, dead |-> 0, total |-> 0]]>>
    /\ UNCHANGED <<heap, proxies, proxy_assignments, probing>>
    /\ UNCHANGED nonProxyVars

InGate(call) == {i \in DOMAIN call.tasks : call.tasks[i] = "probing"}

GateFree_Open(call) == TRUE

\* `async with semaphore` is entered when a permit is free
GateFree(call) == Cardinality(InGate(call)) < call.gate

\* Task i enters the semaphore and runs check_proxy up to its first suspension
task_connect(i, reachable) ==
    /\ Len(check_all) = 1
    /\ i \in DOMAIN check_all[1].tasks
    /\ check_all[1].tasks[i] = "created"
    /\ GateFree(check_all[1])
    /\ CheckProxyConnect(check_all[1].pool[i], reachable)
    /\ check_all' = <<[check_all[1] EXCEPT
                         !.tasks[i] = IF reachable THEN "probing" ELSE "False",
                         !.reached[i] = reachable]>>

\* The HTTP probe of task i ends; the task leaves the semaphore
task_http(i, outcome) ==
    /\ Len(check_all) = 1
    /\ i \in DOMAIN check_all[1].tasks
    /\ check_all[1].tasks[i] = "probing"
    /\ CheckProxyHttp(check_all[1].pool[i], outcome)
    /\ check_all' = <<[check_all[1] EXCEPT
                         !.tasks[i] = IF outcome = "other_status" THEN "False" ELSE "True"]>>

\* gather has every result: the counts are returned
check_all_return ==
    /\ Len(check_all) = 1
    /\ ~check_all[1].returned
    /\ \A i \in DOMAIN check_all[1].tasks : check_all[1].tasks[i] \in {"True", "False"}
    /\ check_all' = <<[check_all[1] EXCEPT !.returned = TRUE,
                                          !.result = Counts(check_all[1].tasks)]>>
    /\ UNCHANGED <<heap, proxies, proxy_assignments, probing>>
    /\ UNCHANGED nonProxyVars

\* The assignment calls on a pool that was loaded and checked, each recorded
\* with what it returned.  Every object of the heap is in the pool here, so
\* nothing is renumbered.
MaxAssignPool == 2

AssignLines == {<<"10.0.0.1", "1080", "user", "pass">>,
                <<"10.0.0.1", "1081", "user", "pass">>,
                <<"10.0.0.2", "1080", "user", "pass">>}

\* The pools load_proxies_from_text makes of distinct lines
AssignPools ==
    {text \in SeqsUpTo(AssignLines, MaxAssignPool) :
        \A i, j \in DOMAIN text : i # j => text[i] # text[j]}

\* A pool as load_proxies_from_text and the checks leave it, nothing assigned
AssignInit ==
    /\ \E text \in AssignPools :
       \E status \in [DOMAIN text -> {"unknown", "alive", "dead"}] :
          /\ heap = [i \in DOMAIN text |-> [ProxyInfo(text[i]) EXCEPT !.status = status[i]]]
          /\ proxies = [i \in DOMAIN text |-> i]
    /\ proxy_assignments = <<>>
    /\ probing = {}
    /\ check_all = <<>>
    /\ assign_call = NoCall

Recorded(op, phones, proxy, result) ==
    \* tick tells one call from the next; again: an auto_assign_proxies call
    \* that follows one for the same phones with no other call between
    /\ assign_call' = [op |-> op, phones |-> phones, proxy |-> proxy, result |-> result,
                       tick |-> ~assign_call.tick,
                       again |-> /\ op = "auto" /\ assign_call.op = "auto"
                                 /\ Range(assign_call.phones) = Range(phones)]
    /\ UNCHANGED <<proxies, probing, check_all>>
    /\ UNCHANGED nonAssignVars

assign_proxy_to_phone_call(phone, proxy) ==
    LET r == AssignResult(heap, proxies, proxy_assignments, phone, proxy)
    IN  /\ heap' = r[1]
        /\ proxy_assignments' = r[2]
        /\ Recorded("assign", <<phone>>, proxy, r[3])

auto_assign_proxies_call(phones) ==
    LET r == AutoAssign(heap, proxies, proxy_assignments, phones)
    IN  /\ heap' = r[1]
        /\ proxy_assignments' = r[2]
        /\ Recorded("auto", phones, 0, r[3])

clear_assignments_call ==
    /\ heap' = ClearedHeap(heap, proxies)
    /\ proxy_assignments' = <<>>
    /\ Recorded("clear", <<>>, 0, 0)

\* ================================================================ DeviceGenerator

NDevices  == 2      \* entries of ANDROID_DEVICES in the model
NVersions == 2      \* entries of TELEGRAM_VERSIONS in the model
NLanguages == 2     \* entries of LANGUAGES in the model

max_attempts == 100

DevicePhones == {"100", "200", "300"}

ANDROID_DEVICES_all == <<
    [brand |-> "Samsung", model |-> "SM-G998B", name |-> "Galaxy S21 Ultra", sdk |-> "Android 13"],
    [brand |-> "Samsung", model |-> "SM-G991B", name |-> "Galaxy S21", sdk |-> "Android 13"],
    [brand |-> "Samsung", model |-> "SM-S908B", name |-> "Galaxy S22 Ultra", sdk |-> "Android 13"],
    [brand |-> "Samsung", model |-> "SM-S901B", name |-> "Galaxy S22", sdk |-> "Android 14"] >>
TELEGRAM_VERSIONS_all == <<"10.6.1", "10.6.2", "10.7.0", "10.7.1">>
LANGUAGES_all == << <<"en", "en-US">>, <<"en", "en-GB">>, <<"ru", "ru-RU">>, <<"es", "es-ES">> >>

ANDROID_DEVICES   == Range(SubSeq(ANDROID_DEVICES_all, 1, NDevices))
TELEGRAM_VERSIONS == Range(SubSeq(TELEGRAM_VERSIONS_all, 1, NVersions))
LANGUAGES         == Range(SubSeq(LANGUAGES_all, 1, NLanguages))

\* combo = f"{device['model']}_{app_version}": no version holds a '_', so the
\* string determines the pair
ComboOf(model, app_version) == <<model, app_version>>
AllCombinations ==
    {ComboOf(d.model, v) : d \in ANDROID_DEVICES, v \in TELEGRAM_VERSIONS}

NoDeviceCall == [phone |-> NoPhone, result |-> <<>>, first |-> <<>>, later |-> FALSE]

DeviceInit ==
    /\ device_assignments = <<>>
    /\ used_combinations = {}
    /\ ceiling_hit = FALSE
    /\ device_returned = NoDeviceCall

HasDevice_Never(assignments, phone) == FALSE

\* phone in self.assignments
HasDevice(assignments, phone) == phone \in DOMAIN assignments

\* The call for phone returns device
DeviceReturned(phone, device) ==
    device_returned' =
        [phone |-> phone, result |-> device,
         later |-> phone \in DOMAIN device_returned.first,
         first |-> IF phone = NoPhone \/ phone \in DOMAIN device_returned.first
                   THEN device_returned.first
                   ELSE [p \in DOMAIN device_returned.first \cup {phone} |->
                           IF p = phone THEN device ELSE device_returned.first[p]]]

\* The draw loop without its membership test: the first draw is taken.
DrawLoop_NoCheck(used) ==
    {[device |-> d, app_version |-> v, used |-> used \cup {ComboOf(d.model, v)},
      exhausted |-> FALSE] : d \in ANDROID_DEVICES, v \in TELEGRAM_VERSIONS}

\* The outcomes of `for _ in range(max_attempts)`.  The generator's draws are
\* any values of rng.choice.  The loop breaks in its k-th iteration with an
\* unused combination, the k-1 draws before it having collided, or it runs
\* all max_attempts iterations on collisions and leaves with the last draw.
DrawLoop(used) ==
    LET draws   == {<<d, v>> : d \in ANDROID_DEVICES, v \in TELEGRAM_VERSIONS}
        unused  == {x \in draws : ComboOf(x[1].model, x[2]) \notin used}
        collide == draws \ unused
        breaks  == {k \in 1..max_attempts : k = 1 \/ collide # {}}
    IN  {[device |-> x[1], app_version |-> x[2],
          used |-> used \cup {ComboOf(x[1].model, x[2])}, exhausted |-> FALSE] :
            x \in {y \in unused : breaks # {}}}
        \cup
        {[device |-> x[1], app_version |-> x[2], used |-> used, exhausted |-> TRUE] :
            x \in {y \in collide : max_attempts >= 1}}

DeviceInfo(device, app_version, lang) ==
    [device_model |-> device.model, system_version |-> device.sdk,
     app_version |-> app_version, lang_code |-> lang[1], system_lang_code |-> lang[2],
     brand |-> device.brand, device_name |-> device.name]

\* generate_unique_device(phone); phone = NoPhone stands for phone=None
generate_unique_device(phone) ==
    /\ IF phone # NoPhone /\ HasDevice(device_assignments, phone)
       THEN /\ DeviceReturned(phone, device_assignments[phone])
            /\ UNCHANGED <<device_assignments, used_combinations, ceiling_hit>>
       ELSE \E r \in DrawLoop(used_combinations), lang \in LANGUAGES :
               /\ used_combinations' = r.used
               /\ ceiling_hit' = (ceiling_hit \/ r.exhausted)
               /\ device_assignments' =
                    IF phone = NoPhone THEN device_assignments
                    ELSE [p \in DOMAIN device_assignments \cup {phone} |->
                            IF p = phone THEN DeviceInfo(r.device, r.app_version, lang)
                            ELSE device_assignments[p]]
               /\ DeviceReturned(phone, DeviceInfo(r.device, r.app_version, lang))
    /\ UNCHANGED nonDeviceVars

get_device_for_phone(phone) ==
    IF HasDevice(device_assignments, phone)
    THEN /\ DeviceReturned(phone, device_assignments[phone])
         /\ UNCHANGED <<device_assignments, used_combinations, ceiling_hit>>
         /\ UNCHANGED nonDeviceVars
    ELSE generate_unique_device(phone)

DeviceGenerator_clear_assignments ==
    /\ device_assignments' = <<>>
    /\ used_combinations' = {}
    /\ ceiling_hit' = FALSE
    /\ device_returned' = NoDeviceCall
    /\ UNCHANGED nonDeviceVars

\* ================================================================ LifeSimulator

NLifestyles == 2    \* members of LifeStyle the seeded choice can return in the model

PersonaPhones == {"100", "200"}
NoName == "None"
FirstNames == {"Ivan"}

\* list(LifeStyle), in definition order
LifeStyles == <<"worker", "student", "freelancer">>

LIFESTYLE_SCHEDULES(l) ==
    CASE l = "worker" ->
           [weekday_active_hours |-> <<7, 8, 12, 13, 18, 19, 20, 21>>,
            weekend_active_hours |-> <<9, 10, 11, 12, 13, 14, 15, 16, 17, 18, 19, 20, 21>>,
            peak_hours |-> <<12, 13, 19, 20>>,
            min_interval |-> 30, max_interval |-> 180, skip_chance |-> 40]
      [] l = "student" ->
           [weekday_active_hours |-> <<9, 10, 11, 12, 13, 14, 15, 16, 17, 18, 19, 20, 21, 22>>,
            weekend_active_hours |-> <<11, 12, 13, 14, 15, 16, 17, 18, 19, 20, 21, 22, 23>>,
            peak_hours |-> <<13, 14, 20, 21, 22>>,
            min_interval |-> 15, max_interval |-> 90, skip_chance |-> 25]
      [] l = "freelancer" ->
           [weekday_active_hours |-> <<10, 11, 12, 13, 14, 15, 16, 17, 18, 19, 20, 21>>,
            weekend_active_hours |-> <<10, 11, 12, 13, 14, 15, 16, 17, 18, 19, 20>>,
            peak_hours |-> <<11, 12, 15, 16, 20>>,
            min_interval |-> 20, max_interval |-> 120, skip_chance |-> 35]

ContentKeys == {"text", "photo", "video", "gif", "sticker", "link"}
Weights(t, p, v, g, s, l) ==
    [k \in ContentKeys |->
        CASE k = "text" -> t [] k = "photo" -> p [] k = "video" -> v
          [] k = "gif" -> g [] k = "sticker" -> s [] k = "link" -> l]
LIFESTYLE_CONTENT(l) ==
    CASE l = "worker"     -> Weights(40, 15, 10, 15, 10, 10)
      [] l = "student"    -> Weights(30, 20, 15, 20, 10, 5)
      [] l = "freelancer" -> Weights(35, 15, 15, 15, 10, 10)

\* The interests, in English for the Russian words of the source
LIFESTYLE_INTERESTS(l) ==
    CASE l = "worker"     -> <<"work", "business", "news", "sport", "rest", "travel">>
      [] l = "student"    -> <<"study", "music", "games", "films", "memes", "technology">>
      [] l = "freelancer" -> <<"IT", "design", "marketing", "self-development", "travel">>

INTEREST_CHANNELS(i) ==
    CASE i = "news"       -> <<"@breakingmash", "@rian_ru", "@taborisha">>
      [] i = "technology" -> <<"@teknoblog", "@habr_com", "@iguides">>
      [] i = "music"      -> <<"@muzyka", "@music_news">>
      [] i = "games"      -> <<"@gamedevsru", "@games_news">>
      [] i = "sport"      -> <<"@sport24ru", "@sportexpress">>
      [] i = "travel"     -> <<"@travel_blog", "@world_travel">>
      [] i = "business"   -> <<"@biznesnews", "@rbc_news">>
      [] i = "memes"      -> <<"@memes_ru", "@funny_pics">>
      [] i = "films"      -> <<"@kinoblog", "@cinema_news">>
      [] OTHER            -> <<>>

\* The streams of draws a seeded generator can produce, in the order
\* generate_persona makes them: rng.choice(list(LifeStyle)), three randint
\* jitters, rng.random() > 0.5 with rng.choice([-2, -1, 1, 2]) (shift = 0: no
\* shift), one randint(-10, 10) per content key, the shuffle (reversed or
\* not), randint(3, len) (all: len) and the samples (the first channels).
RngStreams ==
    {[lifestyle |-> LifeStyles[i], d_min |-> j[1], d_max |-> j[2], d_skip |-> j[3],
      shift |-> sh, d_pref |-> j[4], reversed |-> j[5], all |-> j[6]] :
        i \in 1..NLifestyles, sh \in {0, -2, -1, 1, 2},
        j \in {<<-5, -20, -10, -10, FALSE, FALSE>>, <<10, 30, 10, 10, TRUE, TRUE>>}}

\* random.Random(seed) with a seed that changes between calls: a later call
\* for the same phone draws the other jitters.
Rng_Reseeded(memo, phone) ==
    IF phone \in DOMAIN memo
    THEN {s \in RngStreams : /\ s.lifestyle = memo[phone].lifestyle
                             /\ s.shift = memo[phone].shift
                             /\ s.d_min # memo[phone].d_min}
    ELSE RngStreams

\* rng = random.Random(seed), seed = md5(phone): the same phone gives the
\* same stream in every call (memo: the streams met so far).
Rng(memo, phone) ==
    IF phone \in DOMAIN memo THEN {memo[phone]} ELSE RngStreams

Reverse(s) == [i \in 1..Len(s) |-> s[Len(s) + 1 - i]]
Max(a, b) == IF a >= b THEN a ELSE b
Min(a, b) == IF a <= b THEN a ELSE b

\* f"User_{phone[-4:]}"
DefaultName(phone) == CASE phone = "100" -> "User_100" [] phone = "200" -> "User_200"

\* The Persona generate_persona builds from a stream of draws.
Persona(phone, name, r) ==
    LET base == LIFESTYLE_SCHEDULES(r.lifestyle)
        schedule ==
            [weekday_active_hours |->
                IF r.shift # 0
                THEN [i \in 1..Len(base.weekday_active_hours) |->
                        (base.weekday_active_hours[i] + r.shift) % 24]
                ELSE base.weekday_active_hours,
             weekend_active_hours |-> base.weekend_active_hours,
             peak_hours |-> base.peak_hours,
             min_interval |-> base.min_interval + r.d_min,
             max_interval |-> base.max_interval + r.d_max,
             skip_chance |-> base.skip_chance + r.d_skip]
        content_prefs ==
            [k \in ContentKeys |-> Max(0, Min(100, LIFESTYLE_CONTENT(r.lifestyle)[k] + r.d_pref))]
        shuffled == IF r.reversed THEN Reverse(LIFESTYLE_INTERESTS(r.lifestyle))
                    ELSE LIFESTYLE_INTERESTS(r.lifestyle)
        interests == SubSeq(shuffled, 1, IF r.all THEN Len(shuffled) ELSE 3)
        sampled == UNION {Range(SubSeq(INTEREST_CHANNELS(interests[i]), 1,
                                       Min(2, Len(INTEREST_CHANNELS(interests[i]))))) :
                            i \in 1..Min(3, Len(interests))}
    IN  [phone |-> phone,
         name |-> IF name # NoName THEN name ELSE DefaultName(phone),
         lifestyle |-> r.lifestyle,
         schedule |-> schedule,
         content_preferences |-> content_prefs,
         favorite_channels |-> sampled \cup {"@telegram", "@durov"},
         interests |-> interests,
         last_activity |-> "None", actions_today |-> 0, total_actions |-> 0]

PersonaInit ==
    /\ personas = <<>>
    /\ rng_memo = <<>>
    /\ persona_returned = <<>>

Store(f, k, v) == [x \in DOMAIN f \cup {k} |-> IF x = k THEN v ELSE f[x]]

\* generate_persona as a function of the state: the <<personas, rng_memo>> it can leave
GeneratePersona(ps, memo, phone, name) ==
    {<<Store(ps, phone, Persona(phone, name, r)), Store(memo, phone, r)>> :
        r \in Rng(memo, phone)}

generate_persona(phone, name) ==
    /\ \E g \in GeneratePersona(personas, rng_memo, phone, name) :
          /\ personas' = g[1]
          /\ rng_memo' = g[2]
    /\ UNCHANGED persona_returned
    /\ UNCHANGED nonPersonaVars

get_persona(phone) ==
    /\ IF phone \notin DOMAIN personas
       THEN \E g \in GeneratePersona(personas, rng_memo, phone, NoName) :
               /\ personas' = g[1]
               /\ rng_memo' = g[2]
       ELSE UNCHANGED <<personas, rng_memo>>
    /\ persona_returned' = Store(persona_returned, phone,
                                 [persona |-> personas'[phone],
                                  again |-> phone \in DOMAIN persona_returned])
    /\ UNCHANGED nonPersonaVars

\* The entries of the sessions directory: name -> first_name of its json
\* (NoName: no json, or no first_name in it).  "tmp" is not a digit string.
SessionDirs ==
    {[d \in DOMAIN f \cup {"tmp"} |-> IF d = "tmp" THEN NoName ELSE f[d]] :
        f \in UNION {[D -> FirstNames \cup {NoName}] : D \in SUBSET PersonaPhones}}

RECURSIVE GenerateAll(_, _, _, _)
\* The loop of generate_for_all_accounts over the directory entries `todo`.
GenerateAll(ps, memo, dirs, todo) ==
    IF todo = {} THEN {<<ps, memo>>}
    ELSE LET d == CHOOSE x \in todo : TRUE
         IN  IF d \notin PersonaPhones
             THEN GenerateAll(ps, memo, dirs, todo \ {d})
             ELSE UNION {GenerateAll(g[1], g[2], dirs, todo \ {d}) :
                            g \in GeneratePersona(ps, memo, d, dirs[d])}

generate_for_all_accounts(dirs) ==
    /\ \E g \in GenerateAll(personas, rng_memo, dirs, DOMAIN dirs) :
          /\ personas' = g[1]
          /\ rng_memo' = g[2]
    /\ UNCHANGED persona_returned
    /\ UNCHANGED nonPersonaVars

\* ---------------------------------------------------------------- should_be_active

RandintMax == 100   \* random.randint(0, 100)

\* The skip test with <= for <.
should_be_active_LE(schedule, hour, weekday, draw) ==
    LET is_weekend == weekday >= 5
        active_hours == IF is_weekend THEN schedule.weekend_active_hours
                        ELSE schedule.weekday_active_hours
    IN  IF hour \notin Range(active_hours) THEN FALSE
        ELSE IF draw <= schedule.skip_chance THEN FALSE
        ELSE TRUE

\* should_be_active at datetime.now() = (hour, weekday), random.randint(0, 100) = draw
should_be_active(schedule, hour, weekday, draw) ==
    LET is_weekend == weekday >= 5
        active_hours == IF is_weekend THEN schedule.weekend_active_hours
                        ELSE schedule.weekday_active_hours
    IN  IF hour \notin Range(active_hours) THEN FALSE
        ELSE IF draw < schedule.skip_chance THEN FALSE
        ELSE TRUE

\* No call in progress (the other components' specifications)
ActiveIdle == active_call = <<>>

\* The schedules should_be_active is called with: the scenario's active hours
\* and the skip chances 0, 30 and 100.
ActiveSchedules ==
    {[weekday_active_hours |-> <<9, 10, 11>>, weekend_active_hours |-> <<10, 11, 12>>,
      skip_chance |-> sc] : sc \in {0, 30, 100}}

\* A call of should_be_active with its inputs: the persona's schedule, the
\* time of datetime.now() and the value random.randint(0, 100) will return.
ActiveInit ==
    \E schedule \in ActiveSchedules, hour \in 0..23, weekday \in 0..6, draw \in 0..RandintMax :
        active_call = <<[schedule |-> schedule, hour |-> hour, weekday |-> weekday,
                         draw |-> draw, returned |-> FALSE, result |-> FALSE]>>

should_be_active_call ==
    /\ Len(active_call) = 1
    /\ ~active_call[1].returned
    /\ active_call' =
          <<[active_call[1] EXCEPT
               !.returned = TRUE,
               !.result = should_be_active(active_call[1].schedule, active_call[1].hour,
                                           active_call[1].weekday, active_call[1].draw)]>>
    /\ UNCHANGED nonActiveVars

\* ================================================================ JobManager
\* _execute_job is a coroutine: a run of it is suspended while its await of
\* _execute_action or of asyncio.sleep is pending, and the other operations
\* run in between.  Its outer `except Exception` (status failed) has no
\* statement that raises an Exception in its range: the action's exceptions
\* are caught by the inner handler and _save_jobs catches its own.

MaxJobs == 2
MaxRuns == 2
MaxJobPhones == 2
MaxPerAccount == 1
NChannels == 1
NKinds == 1

JobIds == 1..MaxJobs
RunIds == 1..MaxRuns

WARMUP_CHANNELS_all ==
    <<"@telegram", "@durov", "@TelegramTips", "@TelegramRussian", "@temamusicnews",
      "@breakingmash", "@varlamov", "@medaboronin", "@laborproject">>

WARMUP_CHANNELS == SubSeq(WARMUP_CHANNELS_all, 1, Min(NChannels, Len(WARMUP_CHANNELS_all)))

\* random.choice(["view", "subscribe", "react"])
ActionTypes_all == <<"view", "subscribe", "react">>

ActionTypes == {ActionTypes_all[x] : x \in 1..Min(NKinds, Len(ActionTypes_all))}

\* The arguments of create_warmup_job: the account lists, the channel lists
\* (<<>> for None: the default pool) and the schedules ("None" for None).
JobPhoneLists == {SubSeq(<<"100", "200", "300">>, 1, n) : n \in 0..Min(MaxJobPhones, 3)}

ChannelLists == {<<>>, WARMUP_CHANNELS}

NoSchedule == "None"

Schedules == {NoSchedule, "30m"}

Terminal == {"completed", "failed", "cancelled"}

\* random.sample(channels, m): an ordered choice of m distinct positions
Samples(channels, m) ==
    {[x \in 1..m |-> channels[pos[x]]] :
        pos \in {f \in [1..m -> 1..Len(channels)] : \A x, y \in 1..m : x # y => f[x] # f[y]}}

JobAction(type, target, phone) ==
    [type |-> type, target |-> target, phone |-> phone, status |-> "pending",
     result |-> "None"]

\* The actions create_warmup_job makes for one phone
PhoneActions_NoMin(phone, channels, actions_per_account, kinds) ==
    LET m == Len(channels)
    IN  {[x \in 1..m |-> JobAction(types[x], selected_channels[x], phone)] :
            selected_channels \in Samples(channels, m), types \in [1..m -> kinds]}

\* kinds: the outcomes of random.choice that are followed
PhoneActions(phone, channels, actions_per_account, kinds) ==
    LET m == Min(actions_per_account, Len(channels))
    IN  {[x \in 1..m |-> JobAction(types[x], selected_channels[x], phone)] :
            selected_channels \in Samples(channels, m), types \in [1..m -> kinds]}

RECURSIVE WarmupActions(_, _, _, _)
\* The action lists the loop over phones can build
WarmupActions(phones, channels, actions_per_account, kinds) ==
    IF phones = <<>> THEN {<<>>}
    ELSE {first \o rest :
            first \in PhoneActions(Head(phones), channels, actions_per_account, kinds),
            rest \in WarmupActions(Tail(phones), channels, actions_per_account, kinds)}

Job(actions, schedule) ==
    [status |-> "pending",
     actions |-> actions,
     schedule_type |-> IF schedule # NoSchedule THEN "interval" ELSE "once",
     schedule_value |-> schedule,
     progress |-> 0,
     total_actions |-> Len(actions),
     successful_actions |-> 0,
     failed_actions |-> 0]

\* The job store after construction, the storage directory empty
JobStoreInit ==
    /\ job_objs = <<>>
    /\ jobs = {}
    /\ history = <<>>
    /\ scheduler \in BOOLEAN
    /\ scheduler_jobs = {}
    /\ runs = <<>>
    /\ last_attempted = <<>>

JobInit ==
    /\ JobStoreInit
    /\ warmup_call = <<>>

\* No job activity (the other components' specifications)
JobIdle == JobInit /\ scheduler

\* create_warmup_job on the job store (kinds: see PhoneActions)
CreateWarmupJob(phones, channels_arg, actions_per_account, schedule, kinds) ==
    LET job_id == Len(job_objs) + 1
        channels == IF channels_arg = <<>> THEN WARMUP_CHANNELS ELSE channels_arg
        scheduled == schedule # NoSchedule /\ scheduler
    IN  /\ job_id \in JobIds
        /\ \E actions \in WarmupActions(phones, channels, actions_per_account, kinds) :
              job_objs' = Append(job_objs,
                 [Job(actions, schedule) EXCEPT
                    !.status = IF scheduled THEN "scheduled" ELSE "pending"])
        /\ jobs' = jobs \cup {job_id}
        /\ scheduler_jobs' = IF scheduled THEN scheduler_jobs \cup {job_id}
                             ELSE scheduler_jobs
        /\ last_attempted' = Append(last_attempted, 0)
        /\ UNCHANGED <<history, scheduler, runs>>
        /\ UNCHANGED nonJobVars

create_warmup_job(phones, channels_arg, actions_per_account, schedule) ==
    /\ CreateWarmupJob(phones, channels_arg, actions_per_account, schedule, ActionTypes)
    /\ UNCHANGED warmup_call

\* The arguments of the recorded call: account lists (an account may repeat),
\* None or a list of NCallChannels channels, and 0..MaxCallPerAccount actions
\* per account.
NCallChannels == 2
MaxCallPerAccount == 3
MaxCallPhones == 2

CallChannelLists == {<<>>, SubSeq(WARMUP_CHANNELS_all, 1, Min(NCallChannels, Len(WARMUP_CHANNELS_all)))}

WarmupInit ==
    /\ JobStoreInit
    /\ \E phones \in SeqsUpTo({"100", "200"}, MaxCallPhones), channels \in CallChannelLists,
          actions_per_account \in 0..MaxCallPerAccount, schedule \in Schedules :
          warmup_call = <<[phones |-> phones, channels |-> channels,
                           actions_per_account |-> actions_per_account,
                           schedule |-> schedule, job_id |-> 0]>>

\* The recorded call of create_warmup_job, every outcome of random.choice followed
create_warmup_job_call ==
    /\ Len(warmup_call) = 1
    /\ warmup_call[1].job_id = 0
    /\ CreateWarmupJob(warmup_call[1].phones, warmup_call[1].channels,
                       warmup_call[1].actions_per_account, warmup_call[1].schedule,
                       Range(ActionTypes_all))
    /\ warmup_call' = <<[warmup_call[1] EXCEPT !.job_id = Len(job_objs) + 1]>>

\* int((i + 1) / len(job.actions) * 100) for the 0-based index i, in Python's
\* floats: the quotient is rounded before it is multiplied, which loses one
\* for these (i + 1, len) among the lengths up to 100.
FloatLoss == {<<29, 50>>, <<29, 100>>, <<57, 100>>, <<58, 100>>}

\* The same with the index itself for the position i + 1.
progress_after_index(i, len) ==
    ((i * 100) \div len) - (IF <<i, len>> \in FloatLoss THEN 1 ELSE 0)

progress_after(i, len) ==
    (((i + 1) * 100) \div len) - (IF <<i + 1, len>> \in FloatLoss THEN 1 ELSE 0)

Active(run) == run.pc \in {"action", "sleep"}

Ended(run) == run.pc \in {"done", "KeyError"}

\* The statements after the loop, without the move of a once job.
AfterLoop_NoMove(objs, live, hist, job_id) ==
    [objs |-> [objs EXCEPT ![job_id].status = "completed"],
     live |-> live, hist |-> hist, pc |-> "done"]

\* The statements of _execute_job after the loop: the resulting job objects,
\* live set and history, and how the coroutine ends (del self.jobs[job_id]
\* raises KeyError when the id is no longer in the live set).
AfterLoop(objs, live, hist, job_id) ==
    LET done == [objs EXCEPT ![job_id].status = "completed"]
    IN  IF objs[job_id].schedule_type = "once"
        THEN [objs |-> done, live |-> live \ {job_id}, hist |-> Append(hist, job_id),
              pc |-> IF job_id \in live THEN "done" ELSE "KeyError"]
        ELSE [objs |-> done, live |-> live, hist |-> hist, pc |-> "done"]

\* The top of the loop body for the 1-based position i of run r of job_id:
\* past the end or cancelled, the loop is left; otherwise the action is awaited.
LoopTop(objs, r, job_id, i, rs) ==
    IF i > Len(objs[job_id].actions) \/ objs[job_id].status = "cancelled"
    THEN LET end == AfterLoop(objs, jobs, history, job_id)
         IN  /\ job_objs' = end.objs
             /\ jobs' = end.live
             /\ history' = end.hist
             /\ runs' = [rs EXCEPT ![r].pc = end.pc, ![r].attempted = i - 1]
    ELSE /\ job_objs' = objs
         /\ runs' = [rs EXCEPT ![r].pc = "action", ![r].i = i, ![r].attempted = i - 1]
         /\ UNCHANGED <<jobs, history>>

\* _execute_job from its call to its first await
_execute_job(job_id) ==
    LET r == Len(runs) + 1
        others == {q \in DOMAIN runs : runs[q].job = job_id /\ Active(runs[q])}
        rs == [q \in 1..r |->
                 IF q = r THEN [job |-> job_id, pc |-> "start", i |-> 0, attempted |-> 0,
                                overlapped |-> others # {}, cancelled |-> FALSE]
                 ELSE IF q \in others THEN [runs[q] EXCEPT !.overlapped = TRUE]
                 ELSE runs[q]]
    IN  /\ r \in RunIds
        /\ job_id \in jobs
        /\ LoopTop([job_objs EXCEPT ![job_id].status = "running"], r, job_id, 1, rs)
        /\ UNCHANGED <<scheduler, scheduler_jobs, last_attempted>>
        /\ UNCHANGED <<warmup_call, nonJobVars>>

run_job(job_id) == _execute_job(job_id)

\* The scheduler's trigger for job_id fires
trigger_fires(job_id) ==
    /\ job_id \in scheduler_jobs
    /\ _execute_job(job_id)

ActionStatus_Completed(ok) == "completed"

\* The status an action gets when _execute_action returns (ok) or raises
ActionStatus(ok) == IF ok THEN "completed" ELSE "failed"

\* The await of _execute_action in run r returns (ok) or raises (~ok); the
\* run goes on to its await of asyncio.sleep.
action_returns(r, ok) ==
    /\ r \in DOMAIN runs
    /\ runs[r].pc = "action"
    /\ LET job_id == runs[r].job
           i == runs[r].i
           job == job_objs[job_id]
       IN  /\ job_objs' = [job_objs EXCEPT ![job_id] =
                 [job EXCEPT
                    !.actions[i].status = ActionStatus(ok),
                    !.actions[i].result = IF ok THEN "result" ELSE "str(e)",
                    !.successful_actions = IF ok THEN @ + 1 ELSE @,
                    !.failed_actions = IF ok THEN @ ELSE @ + 1,
                    !.progress = progress_after(i - 1, Len(job.actions))]]
           /\ last_attempted' = [last_attempted EXCEPT ![job_id] = i]
    /\ runs' = [runs EXCEPT ![r].pc = "sleep", ![r].attempted = runs[r].i]
    /\ UNCHANGED <<jobs, history, scheduler, scheduler_jobs>>
    /\ UNCHANGED <<warmup_call, nonJobVars>>

\* The await of asyncio.sleep in run r returns: the next iteration, or the end
sleep_returns(r) ==
    /\ r \in DOMAIN runs
    /\ runs[r].pc = "sleep"
    /\ LoopTop(job_objs, r, runs[r].job, runs[r].i + 1, runs)
    /\ UNCHANGED <<scheduler, scheduler_jobs, last_attempted>>
    /\ UNCHANGED <<warmup_call, nonJobVars>>

Detached_Kept(registered, job_id) == registered

\* self.scheduler.remove_job(job_id), its exception swallowed: the triggers
\* left in the scheduler
Detached(registered, job_id) == registered \ {job_id}

cancel_job(job_id) ==
    /\ job_id \in jobs
    /\ job_objs' = [job_objs EXCEPT ![job_id].status = "cancelled"]
    /\ scheduler_jobs' = Detached(scheduler_jobs, job_id)
    \* history: the runs of the job that were under way at the call
    /\ runs' = [q \in DOMAIN runs |->
                 IF runs[q].job = job_id /\ Active(runs[q])
                 THEN [runs[q] EXCEPT !.cancelled = TRUE] ELSE runs[q]]
    /\ UNCHANGED <<jobs, history, scheduler, last_attempted>>
    /\ UNCHANGED <<warmup_call, nonJobVars>>

delete_job(job_id) ==
    /\ job_id \in jobs
    /\ scheduler_jobs' = Detached(scheduler_jobs, job_id)
    /\ jobs' = jobs \ {job_id}
    /\ UNCHANGED <<job_objs, history, scheduler, runs, last_attempted>>
    /\ UNCHANGED <<warmup_call, nonJobVars>>

\* ================================================================ auto-chat loop
\* run_auto_chat_loop is a task of the event loop: it runs from one await to
\* the next without interruption, and the start and stop requests (and other
\* loops) run while it is suspended.  The awaits of one message are taken
\* in groups: the client's creation and connection with the authorization
\* test (connect), the resolution of the group (resolve), the outbound
\* action (send) and the disconnection (disconnect).
\* Not modelled: msg_count and the texts, which only reach the log.

MaxLoops == 1
MaxRound == 2           \* messages_this_round is 1..MaxRound for randint(5, 15)

topic_energy_initial == 10
RefreshMin == 8
RefreshMax == 15

\* random.randint(8, 15) at a topic refresh
RefreshEnergies == {RefreshMin, RefreshMax}

NoSender == "None"

\* The phones with a session file under SESSIONS_DIR
SessionFiles == {"100", "200", "300"}

\* The groups of groups.json: telegram_group_id is a number ("ok"), a string
\* that is no number ("bad") or absent ("missing"); all_members is the admin
\* followed by the members, or NoMembers when the record has no admin or no
\* members key, so that [group["admin"]] + group["members"] raises KeyError.
NoMembers == <<>>

ChatGroup(id, tg, all_members) ==
    [id |-> id, telegram_group_id |-> tg, all_members |-> all_members]

GroupLists ==
    {<<ChatGroup("g1", "ok", <<"100", "200">>)>>,
     <<ChatGroup("g1", "ok", <<"100", "200">>), ChatGroup("g2", "ok", <<"300">>)>>,
     <<ChatGroup("g3", "bad", <<"100">>), ChatGroup("g4", "missing", <<"100">>),
       ChatGroup("g5", "ok", <<"400", "100">>)>>,
     <<ChatGroup("g6", "ok", NoMembers), ChatGroup("g7", "ok", <<"100">>)>>}

GroupIds == {"g1", "g2", "g3", "g4", "g5", "g6", "g7"}

\* auto_chat_active.get(group_id, False)
IsActive(active, group_id) == group_id \in DOMAIN active /\ active[group_id]

Deactivated_Kept(active, group_id) == active

\* auto_chat_active[group_id] = False
Deactivated(active, group_id) ==
    [x \in DOMAIN active \cup {group_id} |-> IF x = group_id THEN FALSE ELSE active[x]]

\* The test of the fading topic
TopicFaded_Negative(topic_energy) == topic_energy < 0

TopicFaded(topic_energy) == topic_energy <= 0

\* random.choices(["msg", "react", "reply", "sticker", "gif"], ...)
Actions == {"msg", "react", "reply", "sticker", "gif"}

\* client.iter_messages(limit=8): some messages, none, or an exception
RecentOutcomes == {"some", "none", "raised"}

\* The request of a reaction, sticker or gif: sent, nothing to send (an empty
\* sticker set or no inline result), or a transport error
RequestOutcomes == {"ok", "nothing", "raised"}

\* client.send_message: returned or raised
SendOutcomes == {"ok", "raised"}

\* except Exception: action = "msg"; recent_msgs = []
ActionAfterFetch(action, recent) == IF recent = "raised" THEN "msg" ELSE action

\* The branch of reactions, stickers and gifs is entered
Requests(action, recent) ==
    \/ action = "react" /\ recent = "some"
    \/ action \in {"sticker", "gif"}

\* except Exception: action = "msg" in the three branches
ActionAfterRequest(action, recent, request) ==
    IF Requests(action, recent) /\ request = "raised" THEN "msg" ELSE action

\* if action == "reply" and recent_msgs
Replies(action, recent) == action = "reply" /\ recent = "some"

\* elif action == "msg" or not recent_msgs
SendsPlain(action, recent) ==
    /\ ~Replies(action, recent)
    /\ action = "msg" \/ recent # "some"

\* No outbound action yet in this iteration
NoTurn ==
    [action |-> "None", raised |-> FALSE, extra |-> FALSE,
     reply |-> "None", plain |-> "None", appended |-> FALSE]

\* One outbound action from the choice of the action to the end of the try
\* block: what was chosen, whether the chosen action raised a transport
\* error, whether a reaction, sticker or gif went out, how the reply and the
\* plain message went ("None" when not tried), and whether add_to_history
\* was called
Turn(chosen, recent, request, send) ==
    LET fetched   == ActionAfterFetch(chosen, recent)
        requested == Requests(fetched, recent)
        action    == ActionAfterRequest(fetched, recent, request)
        reply     == Replies(action, recent)
        plain     == SendsPlain(action, recent)
    IN  [action   |-> chosen,
         raised   |-> \/ requested /\ request = "raised"
                      \/ reply /\ send = "raised",
         extra    |-> requested /\ request = "ok",
         reply    |-> IF reply THEN send ELSE "None",
         plain    |-> IF plain THEN send ELSE "None",
         appended |-> plain /\ send = "ok"]

\* No group has been processed yet
NoGroup == "None"

\* The locals of a loop at its start
Loop(groups) ==
    [groups |-> groups, pc |-> "start",
     g |-> 0, messages_this_round |-> 0, msg_num |-> 0,
     topic_energy |-> topic_energy_initial, last_sender |-> NoSender,
     sender |-> NoSender, skip_pause |-> FALSE,
     \* history of the current round: whether it began with topic_energy = 1,
     \* the messages it came to generate (those whose sender has a session
     \* file) and the topic refreshes begun in it, both counted up to 2
     from_one |-> FALSE, round_msgs |-> 0, round_refreshes |-> 0,
     \* history: the sender picked before the current one in the same group,
     \* the groups this loop found unresolvable since they were last flagged,
     \* and whether a round of the while loop ended after such a finding
     prev_in_group |-> NoSender,
     group_last |-> [x \in GroupIds |-> NoSender],
     unresolvable |-> {}, later_round |-> FALSE,
     \* the outbound action of the current iteration
     turn |-> NoTurn,
     \* history: the group whose message or refresh last assigned
     \* topic_energy, and the one the current message found there
     energy_group |-> NoGroup, found_group |-> NoGroup,
     \* history: stop_auto_chat has run since the last start_auto_chat
     stop_seen |-> FALSE,
     \* history: the list positions of the groups whose body raised in the
     \* current round
     raised |-> {},
     \* the client of the current message ("None", "created" or "connected")
     \* and the number of sessions this loop has connected and not closed
     client |-> "None", open |-> 0]

UpTo2(n) == IF n >= 2 THEN 2 ELSE n

RECURSIVE GroupsFrom(_, _, _)
RECURSIVE Iterate(_, _)

\* The body of `for msg_num in range(messages_this_round)` from its top to
\* the next await: the <<loop, auto_chat_active>> it can reach.
Iterate(loop, active) ==
    LET group == loop.groups[loop.g]
    IN  IF loop.msg_num >= loop.messages_this_round \/ ~IsActive(active, group.id)
        THEN GroupsFrom(loop, active, loop.g + 1)
        ELSE LET all_members == group.all_members
                 others == {m \in DOMAIN all_members : all_members[m] # loop.last_sender}
                 available_senders == IF others = {} THEN DOMAIN all_members ELSE others
             IN  UNION {
                   LET sender == all_members[m]
                       picked == [loop EXCEPT !.last_sender = sender, !.sender = sender,
                                              !.prev_in_group = loop.group_last[group.id],
                                              !.group_last[group.id] = sender]
                   IN  IF sender \notin SessionFiles
                       THEN Iterate([picked EXCEPT !.msg_num = @ + 1], active)
                       ELSE LET energy == loop.topic_energy - 1
                                spent == [picked EXCEPT !.topic_energy = energy,
                                                        !.round_msgs = UpTo2(@ + 1),
                                                        !.found_group = loop.energy_group,
                                                        !.energy_group = group.id]
                            IN  IF TopicFaded(energy)
                                THEN {<<[spent EXCEPT !.pc = "cooldown",
                                                      !.round_refreshes = UpTo2(@ + 1)],
                                        active>>}
                                ELSE {<<[spent EXCEPT !.pc = "connect"], active>>,
                                      <<[spent EXCEPT !.pc = "ai"], active>>}
                   : m \in available_senders}

AfterRaise_Break(g, n) == n + 1

\* except Exception as e: add_log(...) inside the for loop: the loop over the
\* n groups goes on with the group after g
AfterRaise(g, n) == g + 1

\* The body of `for i, group in enumerate(groups)` from group g to the next await
GroupsFrom(loop, active, g) ==
    IF g > Len(loop.groups)
    THEN {<<[loop EXCEPT !.pc = "round_pause", !.g = 0, !.sender = NoSender,
                         !.skip_pause = FALSE, !.prev_in_group = NoSender,
                         !.messages_this_round = 0, !.msg_num = 0,
                         !.from_one = FALSE, !.round_msgs = 0, !.round_refreshes = 0,
                         !.later_round = (@ \/ loop.unresolvable # {})],
            active>>}
    ELSE LET group == loop.groups[g]
         IN  IF ~IsActive(active, group.id) \/ group.telegram_group_id = "missing"
             THEN GroupsFrom(loop, active, g + 1)
             ELSE IF group.telegram_group_id = "bad"
             THEN GroupsFrom(loop, Deactivated(active, group.id), g + 1)
             ELSE IF group.all_members = NoMembers
             THEN GroupsFrom([loop EXCEPT !.raised = @ \cup {g}], active,
                             AfterRaise(g, Len(loop.groups)))
             ELSE UNION {Iterate([loop EXCEPT !.g = g, !.messages_this_round = n,
                                              !.msg_num = 0, !.skip_pause = FALSE,
                                              !.from_one = (loop.topic_energy = 1),
                                              !.round_msgs = 0, !.round_refreshes = 0],
                                 active) : n \in 1..MaxRound}

AnyActive_Never(active) == FALSE

\* any(auto_chat_active.values())
AnyActive(active) == \E x \in DOMAIN active : active[x]

\* The test of the while loop and the body from its top to the next await
RoundTop(loop, active) ==
    IF AnyActive(active)
    THEN GroupsFrom([loop EXCEPT !.raised = {}], active, 1)
    ELSE {<<[loop EXCEPT !.pc = "stopped", !.g = 0, !.sender = NoSender,
                         !.prev_in_group = NoSender, !.raised = {}], active>>}

ChatIdle ==
    /\ auto_chat_active = <<>>
    /\ loops = <<>>

\* The loop l goes on to one of the outcomes
Resume(l, outcomes) ==
    /\ \E o \in outcomes :
          /\ loops' = [loops EXCEPT ![l] = o[1]]
          /\ auto_chat_active' = o[2]
    /\ UNCHANGED nonChatVars

\* start_auto_chat: every group of the file is flagged and a new loop is
\* started, whether or not another loop is running
StartLoop(groups) ==
    /\ auto_chat_active' =
         [x \in DOMAIN auto_chat_active \cup {groups[i].id : i \in DOMAIN groups} |->
            IF \E i \in DOMAIN groups : groups[i].id = x THEN TRUE ELSE auto_chat_active[x]]
    /\ loops' = Append([l \in DOMAIN loops |->
                          [loops[l] EXCEPT !.unresolvable =
                              @ \ {groups[i].id : i \in DOMAIN groups},
                                           !.stop_seen = FALSE]],
                       Loop(groups))
    /\ UNCHANGED nonChatVars

start_auto_chat(groups) ==
    /\ Len(loops) < MaxLoops
    /\ StartLoop(groups)

\* stop_auto_chat: auto_chat_active = {}
stop_auto_chat ==
    /\ loops # <<>>
    /\ auto_chat_active' = <<>>
    /\ loops' = [l \in DOMAIN loops |-> [loops[l] EXCEPT !.stop_seen = TRUE]]
    /\ UNCHANGED nonChatVars

\* The task created by start_auto_chat is run for the first time
loop_starts(l) ==
    /\ loops[l].pc = "start"
    /\ Resume(l, RoundTop(loops[l], auto_chat_active))

\* asyncio.sleep(30) returns: the starter is chosen and the energy refreshed
cooldown_ends(l) ==
    /\ loops[l].pc = "cooldown"
    /\ \E energy \in RefreshEnergies :
          loops' = [loops EXCEPT ![l].pc = "connect", ![l].topic_energy = energy]
    /\ UNCHANGED <<auto_chat_active, nonChatVars>>

\* generate_message returns or raises: either way there is a message
ai_returns(l) ==
    /\ loops[l].pc = "ai"
    /\ loops' = [loops EXCEPT ![l].pc = "connect"]
    /\ UNCHANGED <<auto_chat_active, nonChatVars>>

ConnectOutcomes == {"authorized", "unauthorized", "no_client", "connect_failed"}

\* create_telegram_client, connect and is_user_authorized have returned or raised
connect_returns(l, outcome) ==
    /\ loops[l].pc = "connect"
    /\ loops' = [loops EXCEPT ![l].pc = CASE outcome = "authorized" -> "resolve"
                                           [] outcome = "no_client" -> "pause"
                                           [] OTHER -> "disconnect",
                              ![l].client = CASE outcome = "no_client" -> "None"
                                               [] outcome = "connect_failed" -> "created"
                                               [] OTHER -> "connected",
                              ![l].open = IF outcome \in {"authorized", "unauthorized"}
                                          THEN @ + 1 ELSE @]
    /\ UNCHANGED <<auto_chat_active, nonChatVars>>

ResolveOutcomes == {"group", "user", "not_found", "exception"}

\* get_entity, and get_dialogs after it, have returned or raised
resolve_returns(l, outcome) ==
    /\ loops[l].pc = "resolve"
    /\ IF outcome = "group"
       THEN /\ loops' = [loops EXCEPT ![l].pc = "send"]
            /\ UNCHANGED auto_chat_active
       ELSE /\ loops' = [loops EXCEPT ![l].pc = "disconnect", ![l].skip_pause = TRUE,
                                       ![l].unresolvable =
                                           @ \cup {loops[l].groups[loops[l].g].id}]
            /\ auto_chat_active' =
                 Deactivated(auto_chat_active, loops[l].groups[loops[l].g].id)
    /\ UNCHANGED nonChatVars

\* The outbound action (message, reaction, reply, sticker or gif) has
\* returned or raised
send_returns(l, action, recent, request, send) ==
    /\ loops[l].pc = "send"
    /\ action = "react" => request # "nothing"
    /\ loops' = [loops EXCEPT ![l].pc = "disconnect",
                              ![l].turn = Turn(action, recent, request, send)]
    /\ UNCHANGED <<auto_chat_active, nonChatVars>>

NextMessage(loop) ==
    [loop EXCEPT !.msg_num = @ + 1, !.skip_pause = FALSE, !.turn = NoTurn,
                 !.found_group = NoGroup]

Closed_Leak(client, open) == open

\* client.disconnect(): the sessions left open when the client is closed
Closed(client, open) == IF client = "connected" THEN open - 1 ELSE open

\* finally: if client: await client.disconnect()
Disconnected(loop) ==
    [loop EXCEPT !.open = Closed(loop.client, loop.open), !.client = "None"]

\* client.disconnect() has returned or raised: after a `continue` the pause
\* between messages is skipped
disconnect_returns(l) ==
    /\ loops[l].pc = "disconnect"
    /\ IF loops[l].skip_pause
       THEN Resume(l, Iterate(NextMessage(Disconnected(loops[l])), auto_chat_active))
       ELSE /\ loops' = [loops EXCEPT ![l] =
                            [Disconnected(loops[l]) EXCEPT !.pc = "pause",
                                                           !.turn = NoTurn]]
            /\ UNCHANGED <<auto_chat_active, nonChatVars>>

\* The pause between two messages is over
pause_ends(l) ==
    /\ loops[l].pc = "pause"
    /\ Resume(l, Iterate(NextMessage(loops[l]), auto_chat_active))

\* The pause between two rounds is over
round_pause_ends(l) ==
    /\ loops[l].pc = "round_pause"
    /\ Resume(l, RoundTop(loops[l], auto_chat_active))

\* ---------------------------------------------------------------- job sessions
\* One run of _execute_job over NExec actions, followed through the awaits of
\* _execute_action: the tests before the client is made, connect,
\* is_user_authorized, the requests of the action and disconnect.

NExec == 2

ExecIdle == exec = [pc |-> "idle", i |-> 0, client |-> "None", open |-> 0]

\* _execute_job is called and reaches its first action
execute_job_begins ==
    /\ exec.pc = "idle"
    /\ exec' = [exec EXCEPT !.pc = "action", !.i = 1]
    /\ UNCHANGED nonExecVars

PrepareOutcomes == {"no_phone", "no_session", "client"}

\* _execute_action up to TelegramClient(...): it raises without a phone or a
\* session file, before any client exists
action_begins(outcome) ==
    /\ exec.pc = "action"
    /\ exec' = IF outcome = "client"
               THEN [exec EXCEPT !.pc = "connect", !.client = "created"]
               ELSE [exec EXCEPT !.pc = "sleep"]
    /\ UNCHANGED nonExecVars

\* await client.connect() returns or raises
action_connect_returns(ok) ==
    /\ exec.pc = "connect"
    /\ exec' = IF ok
               THEN [exec EXCEPT !.pc = "authorize", !.client = "connected",
                                 !.open = @ + 1]
               ELSE [exec EXCEPT !.pc = "disconnect"]
    /\ UNCHANGED nonExecVars

AuthorizeOutcomes == {"authorized", "unauthorized", "raised"}

\* await client.is_user_authorized(): PermissionError when not authorized
action_authorize_returns(outcome) ==
    /\ exec.pc = "authorize"
    /\ exec' = [exec EXCEPT !.pc = IF outcome = "authorized" THEN "request"
                                   ELSE "disconnect"]
    /\ UNCHANGED nonExecVars

\* The requests of a subscribe, view or react action return or raise
action_request_returns(ok) ==
    /\ exec.pc = "request"
    /\ exec' = [exec EXCEPT !.pc = "disconnect"]
    /\ UNCHANGED nonExecVars

\* finally: await client.disconnect(); then the pause between actions
action_disconnect_returns ==
    /\ exec.pc = "disconnect"
    /\ exec' = [exec EXCEPT !.pc = "sleep", !.client = "None",
                            !.open = Closed(exec.client, exec.open)]
    /\ UNCHANGED nonExecVars

\* asyncio.sleep between two actions returns
action_sleep_returns ==
    /\ exec.pc = "sleep"
    /\ exec' = IF exec.i < NExec
               THEN [exec EXCEPT !.pc = "action", !.i = @ + 1]
               ELSE [exec EXCEPT !.pc = "done"]
    /\ UNCHANGED nonExecVars

\* ---------------------------------------------------------------- job history

\* self.history[-100:]: the jobs _save_jobs writes to jobs_history.json
HistoryKept == 100

\* The jobs archived by one JobManager are counted up to this bound
MaxHistory == 102

\* history[-HistoryKept:] of a list of n jobs holds this many
LastKept(n) == IF n > HistoryKept THEN HistoryKept ELSE n

ArchiveIdle ==
    /\ history_count = 0
    /\ history_file = 0

\* JobManager.__init__ on a storage whose jobs_history.json was written by an
\* earlier _save_jobs (or is absent): _load_jobs reads all of it
ArchiveInit ==
    /\ history_file \in 0..HistoryKept
    /\ history_count = history_file

\* The end of _execute_job for a once job, whatever its status: the job is
\* appended to self.history and _save_jobs is called, which swallows its own
\* exceptions
execute_job_ends(saved) ==
    /\ history_count < MaxHistory
    /\ history_count' = history_count + 1
    /\ history_file' = IF saved THEN LastKept(history_count + 1) ELSE history_file
    /\ UNCHANGED nonArchiveVars

\* _save_jobs called by another operation (create, cancel, delete): the file
\* is rewritten, the list is left as it is
save_jobs ==
    /\ history_file' = LastKept(history_count)
    /\ UNCHANGED <<history_count, nonArchiveVars>>

\* The process is restarted: a new JobManager loads the file, or starts with
\* an empty history when the file cannot be read
load_jobs(loaded) ==
    /\ history_count' = IF loaded THEN history_file ELSE 0
    /\ UNCHANGED <<history_file, nonArchiveVars>>

\* ================================================================ specifications

ProxyNext ==
    \/ \E text \in SeqsUpTo(TextLines, MaxLines) : load_proxies_from_text(text)
    \/ \E phone \in ProxyPhones, proxy \in {0} \cup DOMAIN heap :
          assign_proxy_to_phone(phone, proxy)
    \/ \E phones \in SeqsUpTo(ProxyPhones, 2) : auto_assign_proxies(phones)
    \/ ProxyManager_clear_assignments
    \/ \E o \in ObjIds, reachable \in BOOLEAN : check_proxy_connect(o, reachable)
    \/ \E o \in ObjIds, outcome \in HttpOutcomes : check_proxy_http(o, outcome)

CheckAllNext ==
    \/ \E gate \in Gates : check_all_proxies(gate)
    \/ \E i \in 1..MaxPool, reachable \in BOOLEAN : task_connect(i, reachable)
    \/ \E i \in 1..MaxPool, outcome \in HttpOutcomes : task_http(i, outcome)
    \/ check_all_return

DeviceNext ==
    \/ \E phone \in DevicePhones \cup {NoPhone} : generate_unique_device(phone)
    \/ \E phone \in DevicePhones : get_device_for_phone(phone)
    \/ DeviceGenerator_clear_assignments

PersonaNext ==
    \/ \E phone \in PersonaPhones, name \in FirstNames \cup {NoName} :
          generate_persona(phone, name)
    \/ \E phone \in PersonaPhones : get_persona(phone)
    \/ \E dirs \in SessionDirs : generate_for_all_accounts(dirs)

ActiveNext == should_be_active_call

JobNext ==
    \/ \E phones \in JobPhoneLists, channels \in ChannelLists,
          actions_per_account \in 0..MaxPerAccount, schedule \in Schedules :
          create_warmup_job(phones, channels, actions_per_account, schedule)
    \/ \E job_id \in JobIds : run_job(job_id)
    \/ \E job_id \in JobIds : trigger_fires(job_id)
    \/ \E r \in RunIds, ok \in BOOLEAN : action_returns(r, ok)
    \/ \E r \in RunIds : sleep_returns(r)
    \/ \E job_id \in JobIds : cancel_job(job_id)
    \/ \E job_id \in JobIds : delete_job(job_id)

Init == ProxyInit /\ DeviceInit /\ PersonaInit /\ ActiveIdle /\ JobIdle /\ ChatIdle /\ ArchiveIdle
        /\ ExecIdle

InitActive == ProxyInit /\ DeviceInit /\ PersonaInit /\ ActiveInit /\ JobIdle /\ ChatIdle /\ ArchiveIdle
        /\ ExecIdle

InitJob == ProxyInit /\ DeviceInit /\ PersonaInit /\ ActiveIdle /\ JobInit /\ ChatIdle /\ ArchiveIdle
        /\ ExecIdle

InitCheckAll == CheckAllInit /\ DeviceInit /\ PersonaInit /\ ActiveIdle /\ JobIdle /\ ChatIdle /\ ArchiveIdle
        /\ ExecIdle

InitWarmup == ProxyInit /\ DeviceInit /\ PersonaInit /\ ActiveIdle /\ WarmupInit /\ ChatIdle /\ ArchiveIdle
        /\ ExecIdle

WarmupNext == create_warmup_job_call

SpecProxy   == Init /\ [][ProxyNext]_vars
SpecDevice  == Init /\ [][DeviceNext]_vars
SpecPersona == Init /\ [][PersonaNext]_vars
SpecActive  == InitActive /\ [][ActiveNext]_vars
SpecJob     == InitJob /\ [][JobNext]_vars
\* The event loop runs every task that is ready, and the connect and the
\* HTTP probe end within their timeouts.
SpecCheckAll == InitCheckAll /\ [][CheckAllNext]_vars /\ WF_vars(CheckAllNext)
SpecWarmup  == InitWarmup /\ [][WarmupNext]_vars

InitAssign == AssignInit /\ DeviceInit /\ PersonaInit /\ ActiveIdle /\ JobIdle /\ ChatIdle /\ ArchiveIdle
        /\ ExecIdle

AssignNext ==
    \/ \E phone \in ProxyPhones, proxy \in {0} \cup DOMAIN heap :
          assign_proxy_to_phone_call(phone, proxy)
    \/ \E phones \in SeqsUpTo(ProxyPhones, 2) : auto_assign_proxies_call(phones)
    \/ clear_assignments_call

SpecAssign  == InitAssign /\ [][AssignNext]_vars

ChatNext ==
    \/ \E groups \in GroupLists : start_auto_chat(groups)
    \/ stop_auto_chat
    \/ \E l \in DOMAIN loops : loop_starts(l)
    \/ \E l \in DOMAIN loops : cooldown_ends(l)
    \/ \E l \in DOMAIN loops : ai_returns(l)
    \/ \E l \in DOMAIN loops, outcome \in ConnectOutcomes : connect_returns(l, outcome)
    \/ \E l \in DOMAIN loops, outcome \in ResolveOutcomes : resolve_returns(l, outcome)
    \/ \E l \in DOMAIN loops, action \in Actions, recent \in RecentOutcomes,
          request \in RequestOutcomes, send \in SendOutcomes :
          send_returns(l, action, recent, request, send)
    \/ \E l \in DOMAIN loops : disconnect_returns(l)
    \/ \E l \in DOMAIN loops : pause_ends(l)
    \/ \E l \in DOMAIN loops : round_pause_ends(l)

SpecChat    == Init /\ [][ChatNext]_vars

InitArchive == ProxyInit /\ DeviceInit /\ PersonaInit /\ ActiveIdle /\ JobIdle /\ ChatIdle
               /\ ArchiveInit /\ ExecIdle

ArchiveNext ==
    \/ \E saved \in BOOLEAN : execute_job_ends(saved)
    \/ save_jobs
    \/ \E loaded \in BOOLEAN : load_jobs(loaded)

SpecArchive == InitArchive /\ [][ArchiveNext]_vars

\* Overlapping loops: start_auto_chat is called up to MaxOverlap times on the
\* same groups file, at any point of the life of the first loop, and the
\* loops are followed until a later loop has begun MaxOverlapSent messages;
\* every outbound action is a plain message
MaxOverlap == 2

MaxOverlapSent == 1

OverlapGroups == <<ChatGroup("g1", "ok", <<"100", "200">>)>>

Early(l) ==
    \A k \in DOMAIN loops \ {1} :
        loops[k].topic_energy >= topic_energy_initial - MaxOverlapSent

start_auto_chat_again ==
    /\ Len(loops) < MaxOverlap
    /\ StartLoop(OverlapGroups)

OverlapNext ==
    \/ start_auto_chat_again
    \/ stop_auto_chat
    \/ \E l \in DOMAIN loops : Early(l) /\ loop_starts(l)
    \/ \E l \in DOMAIN loops : Early(l) /\ cooldown_ends(l)
    \/ \E l \in DOMAIN loops : Early(l) /\ ai_returns(l)
    \/ \E l \in DOMAIN loops, outcome \in ConnectOutcomes :
          Early(l) /\ connect_returns(l, outcome)
    \/ \E l \in DOMAIN loops, outcome \in ResolveOutcomes :
          Early(l) /\ resolve_returns(l, outcome)
    \/ \E l \in DOMAIN loops, send \in SendOutcomes :
          Early(l) /\ send_returns(l, "msg", "some", "ok", send)
    \/ \E l \in DOMAIN loops : Early(l) /\ disconnect_returns(l)
    \/ \E l \in DOMAIN loops : Early(l) /\ pause_ends(l)
    \/ \E l \in DOMAIN loops : Early(l) /\ round_pause_ends(l)

SpecOverlap == Init /\ [][OverlapNext]_vars

\* A job run and an orchestrator loop over one group, every outbound action
\* a plain message
SessionNext ==
    \/ execute_job_begins
    \/ \E outcome \in PrepareOutcomes : action_begins(outcome)
    \/ \E ok \in BOOLEAN : action_connect_returns(ok)
    \/ \E outcome \in AuthorizeOutcomes : action_authorize_returns(outcome)
    \/ \E ok \in BOOLEAN : action_request_returns(ok)
    \/ action_disconnect_returns
    \/ action_sleep_returns
    \/ start_auto_chat(OverlapGroups)
    \/ stop_auto_chat
    \/ \E l \in DOMAIN loops : loop_starts(l)
    \/ \E l \in DOMAIN loops : cooldown_ends(l)
    \/ \E l \in DOMAIN loops : ai_returns(l)
    \/ \E l \in DOMAIN loops, outcome \in ConnectOutcomes : connect_returns(l, outcome)
    \/ \E l \in DOMAIN loops, outcome \in ResolveOutcomes : resolve_returns(l, outcome)
    \/ \E l \in DOMAIN loops, send \in SendOutcomes :
          send_returns(l, "msg", "some", "ok", send)
    \/ \E l \in DOMAIN loops : disconnect_returns(l)
    \/ \E l \in DOMAIN loops : pause_ends(l)
    \/ \E l \in DOMAIN loops : round_pause_ends(l)

SpecSession == Init /\ [][SessionNext]_vars

\* One step of the task of loop l: the await it is suspended in returns
LoopStep(l) ==
    /\ l \in DOMAIN loops
    /\ \/ loop_starts(l)
       \/ cooldown_ends(l)
       \/ ai_returns(l)
       \/ \E outcome \in ConnectOutcomes : connect_returns(l, outcome)
       \/ \E outcome \in ResolveOutcomes : resolve_returns(l, outcome)
       \/ \E action \in Actions, recent \in RecentOutcomes,
             request \in RequestOutcomes, send \in SendOutcomes :
             send_returns(l, action, recent, request, send)
       \/ disconnect_returns(l)
       \/ pause_ends(l)
       \/ round_pause_ends(l)

\* The event loop resumes every task whose await has returned
SpecChatLive ==
    Init /\ [][ChatNext]_vars /\ \A l \in 1..MaxLoops : WF_vars(LoopStep(l))

\* ================================================================ claims

\* C1: every account has at most one proxy of the pool whose assigned_to is
\* that account, and every proxy object is assigned to at most one account.
C1_OneToOne ==
    /\ \A a \in ProxyPhones :
          Cardinality({i \in 1..Len(proxies) : heap[proxies[i]].assigned_to = a}) <= 1
    /\ \A o \in DOMAIN heap :
          Cardinality({a \in DOMAIN proxy_assignments : proxy_assignments[a] = o}) <= 1

PairwiseDistinctCombinations ==
    \A p, q \in DOMAIN device_assignments :
        p # q => ComboOf(device_assignments[p].device_model, device_assignments[p].app_version)
                 # ComboOf(device_assignments[q].device_model, device_assignments[q].app_version)

Edges ==
    {<<"pending", "scheduled">>, <<"pending", "running">>, <<"scheduled", "running">>,
     <<"running", "completed">>, <<"running", "failed">>, <<"running", "cancelled">>}

\* The status changes of job j in a step.  The step that starts a run of j
\* assigns running and, when the loop is left at once, completed after it.
StatusChanges(j) ==
    LET old == job_objs[j].status
        new == job_objs'[j].status
        starts == Len(runs') > Len(runs) /\ runs'[Len(runs')].job = j
        path == IF starts THEN {<<old, "running">>, <<"running", new>>}
                ELSE {<<old, new>>}
    IN  {c \in path : c[1] # c[2]}

\* C3: every change of a job's status is one of the edges pending -> scheduled,
\* pending -> running, scheduled -> running, running -> completed, failed or
\* cancelled; so running is entered only from pending or scheduled and no
\* change leaves completed, failed or cancelled.
C3_StatusEdges ==
    [][\A j \in DOMAIN job_objs : StatusChanges(j) \subseteq Edges]_vars

\* C4: a job with schedule_type once and a terminal status is in the history
\* list and not in the live set.
C4_TerminalOnceArchived ==
    \A j \in DOMAIN job_objs :
        (job_objs[j].schedule_type = "once" /\ job_objs[j].status \in Terminal)
        => (j \in Range(history) /\ j \notin jobs)

RunsOf(j) == {q \in DOMAIN runs : runs[q].job = j}

AllCompleted(job) == \A a \in DOMAIN job.actions : job.actions[a].status = "completed"

\* C5: once the only run of a once job has ended with every action of the job
\* completed, the job has status completed, is in the history list and is not
\* in the live set.
C5_OnceAllSucceed ==
    \A r \in DOMAIN runs :
        (/\ Ended(runs[r])
         /\ RunsOf(runs[r].job) = {r}
         /\ job_objs[runs[r].job].schedule_type = "once"
         /\ AllCompleted(job_objs[runs[r].job]))
        => (/\ job_objs[runs[r].job].status = "completed"
            /\ runs[r].job \in Range(history)
            /\ runs[r].job \notin jobs)

\* The only run of a two-action once job has ended, both actions completed.
C5_Witness ==
    \E r \in DOMAIN runs :
        /\ runs[r].pc = "done"
        /\ RunsOf(runs[r].job) = {r}
        /\ job_objs[runs[r].job].schedule_type = "once"
        /\ Len(job_objs[runs[r].job].actions) = 2
        /\ AllCompleted(job_objs[runs[r].job])
        /\ job_objs[runs[r].job].status = "completed"
        /\ runs[r].job \in Range(history)

\* C6: from the start of a run of a job to its end, no step lowers the job's
\* progress.
C6_ProgressMonotoneInRun ==
    [][\A r \in DOMAIN runs :
          Active(runs[r]) =>
              job_objs'[runs[r].job].progress >= job_objs[runs[r].job].progress]_vars

\* Run r ends in this step
RunEnds(r) == Ended(runs'[r]) /\ (r \in DOMAIN runs => ~Ended(runs[r]))

CompletedCount(job) ==
    Cardinality({a \in DOMAIN job.actions : job.actions[a].status = "completed"})

\* C7 as stated: when a run of a job with actions ends, the job's progress is
\* 100 * (number of actions with status completed) / (number of actions).
C7_ProgressIsCompletedShare ==
    [][\A r \in DOMAIN runs' :
          (RunEnds(r) /\ Len(job_objs'[runs'[r].job].actions) > 0)
          => job_objs'[runs'[r].job].progress
               = (100 * CompletedCount(job_objs'[runs'[r].job]))
                    \div Len(job_objs'[runs'[r].job].actions)]_vars

\* The integer part of p / n * 100 in floating point, 0 for p = 0
PercentOf(p, n) ==
    IF p = 0 THEN 0
    ELSE ((100 * p) \div n) - (IF <<p, n>> \in FloatLoss THEN 1 ELSE 0)

\* C7 amended: when a run ends, the job's progress is the integer part of
\* p / n * 100, p the list position of the job's action whose outcome was
\* recorded last (completed or failed) and n the number of actions; for a run
\* that no other run of the job overlapped, p is the number of actions the
\* run attempted, at least 1 when the job has actions.
C7_ProgressIsAttemptedShare ==
    [][\A r \in DOMAIN runs' :
          RunEnds(r) =>
            LET j == runs'[r].job
                n == Len(job_objs'[j].actions)
            IN  /\ job_objs'[j].progress = PercentOf(last_attempted'[j], n)
                /\ (~runs'[r].overlapped /\ n > 0) =>
                      /\ runs'[r].attempted >= 1
                      /\ job_objs'[j].progress = PercentOf(runs'[r].attempted, n)]_vars

\* A run that nothing overlapped has ended after attempting both actions of
\* its job, one of which failed.
C7_Witness ==
    \E r \in DOMAIN runs :
        /\ Ended(runs[r])
        /\ ~runs[r].overlapped
        /\ runs[r].attempted = 2
        /\ Len(job_objs[runs[r].job].actions) = 2
        /\ \E a \in 1..2 : job_objs[runs[r].job].actions[a].status = "failed"
        /\ job_objs[runs[r].job].progress = 100

\* The fields C8 compares
Traits(persona) ==
    <<persona.lifestyle, persona.schedule, persona.content_preferences,
      persona.favorite_channels, persona.interests,
      persona.actions_today, persona.total_actions>>

\* C8: a get_persona(A) call that follows an earlier get_persona(A) call
\* returns a persona with the same lifestyle, schedule, content weights,
\* favorite channels, interests and counters as the earlier call returned.
C8_SamePersonaTwice ==
    [][\A p \in DOMAIN persona_returned :
          Traits(persona_returned'[p].persona) = Traits(persona_returned[p].persona)]_vars

\* A repeated call has returned a persona whose hours were shifted.
C8_Witness ==
    \E p \in DOMAIN persona_returned :
        /\ persona_returned[p].again
        /\ persona_returned[p].persona.schedule.weekday_active_hours
             # LIFESTYLE_SCHEDULES(persona_returned[p].persona.lifestyle).weekday_active_hours

\* C9: no step replaces a stored persona's name, counters or last activity.
C9_StoredPersonaKept ==
    [][\A p \in DOMAIN personas :
          /\ personas'[p].name = personas[p].name
          /\ personas'[p].actions_today = personas[p].actions_today
          /\ personas'[p].total_actions = personas[p].total_actions
          /\ personas'[p].last_activity = personas[p].last_activity]_vars

ActiveHoursNow(c) ==
    IF c.weekday \in {5, 6} THEN Range(c.schedule.weekend_active_hours)
    ELSE Range(c.schedule.weekday_active_hours)

\* C10: with skip_chance = 0 and the current hour in the active hours of the
\* current day type, should_be_active returns True whatever the draw.
C10_ActiveWhenNoSkip ==
    \A i \in DOMAIN active_call :
        (/\ active_call[i].returned
         /\ active_call[i].schedule.skip_chance = 0
         /\ active_call[i].hour \in ActiveHoursNow(active_call[i]))
        => active_call[i].result = TRUE

C10_Witness ==
    \E i \in DOMAIN active_call :
        /\ active_call[i].returned
        /\ active_call[i].schedule.skip_chance = 0
        /\ active_call[i].hour = 9 /\ active_call[i].weekday = 0
        /\ active_call[i].draw = 0
        /\ active_call[i].result = TRUE

\* C11: with skip_chance = 100, should_be_active returns False whatever the
\* draw, also when the current hour is in the active hours.
C11_InactiveWhenAlwaysSkip ==
    \A i \in DOMAIN active_call :
        (/\ active_call[i].returned
         /\ active_call[i].schedule.skip_chance = 100)
        => active_call[i].result = FALSE

\* C12: the job a create_warmup_job call returns has min(k, n) actions per
\* account of the list (k = actions_per_account, n = the number of channels
\* of the pool in use), grouped in the order of the account list, each with
\* status pending and a type among view, subscribe and react.
C12_WarmupActions ==
    \A c \in DOMAIN warmup_call :
        warmup_call[c].job_id # 0 =>
            LET call == warmup_call[c]
                job == job_objs[call.job_id]
                n == IF call.channels = <<>> THEN Len(WARMUP_CHANNELS) ELSE Len(call.channels)
                m == IF call.actions_per_account <= n THEN call.actions_per_account ELSE n
            IN  /\ Len(job.actions) = Len(call.phones) * m
                /\ \A x \in DOMAIN job.actions :
                      /\ job.actions[x].phone = call.phones[((x - 1) \div m) + 1]
                      /\ job.actions[x].status = "pending"
                      /\ job.actions[x].type \in {"view", "subscribe", "react"}

\* A call for two accounts with k = 1 over two channels has returned a job
\* of two actions of different types.
C12_Witness ==
    \E c \in DOMAIN warmup_call :
        /\ warmup_call[c].job_id # 0
        /\ warmup_call[c].phones = <<"100", "200">>
        /\ warmup_call[c].actions_per_account = 1
        /\ Len(warmup_call[c].channels) = 2
        /\ Len(job_objs[warmup_call[c].job_id].actions) = 2
        /\ job_objs[warmup_call[c].job_id].actions[1].type = "react"
        /\ job_objs[warmup_call[c].job_id].actions[2].type = "view"

\* C13: check_all_proxies returns, and when it has returned alive + dead is
\* total, no proxy of the pool has status checking or unknown, and if every
\* proxy was unreachable every proxy is dead and alive = 0, dead = total =
\* the size of the pool; this for every gate.
C13_CheckAllCounts ==
    /\ [](\A c \in DOMAIN check_all :
            check_all[c].returned =>
               /\ check_all[c].result.alive + check_all[c].result.dead
                     = check_all[c].result.total
               /\ \A i \in DOMAIN proxies : heap[proxies[i]].status \in {"alive", "dead"}
               /\ (\A i \in DOMAIN proxies : ~check_all[c].reached[i]) =>
                     /\ \A i \in DOMAIN proxies : heap[proxies[i]].status = "dead"
                     /\ check_all[c].result
                          = [alive |-> 0, dead |-> Len(proxies), total |-> Len(proxies)])
    /\ <>(\E c \in DOMAIN check_all : check_all[c].returned)

\* A call over three unreachable proxies behind a gate of 1 has returned.
C13_Witness ==
    \E c \in DOMAIN check_all :
        /\ check_all[c].returned
        /\ check_all[c].gate = 1
        /\ Len(proxies) = 3
        /\ \A i \in DOMAIN proxies : ~check_all[c].reached[i]
        /\ check_all[c].result = [alive |-> 0, dead |-> 3, total |-> 3]

\* C14: in a round of a group that starts with topic_energy = 1, the first
\* message the round comes to generate takes the pause-and-refresh branch, and
\* by the time the second message is generated that branch has been taken
\* exactly once and the energy has been reset.
C14_CooldownOnceFromOne ==
    \A l \in DOMAIN loops :
        (loops[l].from_one /\ loops[l].round_msgs >= 1) =>
            /\ loops[l].round_refreshes = 1
            /\ loops[l].round_msgs = 2 => loops[l].topic_energy >= RefreshMin - 1

\* A round that started with topic_energy = 1 is sending its second message
\* after one refresh.
C14_Witness ==
    \E l \in DOMAIN loops :
        /\ loops[l].from_one
        /\ loops[l].round_msgs = 2
        /\ loops[l].round_refreshes = 1
        /\ loops[l].pc = "send"

\* C19: in a group of two or more members, the sender picked for a message
\* is not the sender picked for the message before it in that group.
C19_NeverSameSenderTwice ==
    \A l \in DOMAIN loops :
        (/\ loops[l].g # 0
         /\ loops[l].sender # NoSender
         /\ Len(loops[l].groups[loops[l].g].all_members) >= 2)
        => loops[l].sender # loops[l].prev_in_group

C17_FailureContained ==
    [][\A r \in DOMAIN runs :
          LET job_id == runs[r].job
              n == Len(job_objs[job_id].actions)
              i == runs[r].i
          IN  /\ (/\ runs[r].pc = "action" /\ runs'[r].pc = "sleep"
                  /\ job_objs'[job_id].failed_actions # job_objs[job_id].failed_actions
                     \/ job_objs'[job_id].actions[i].status = "failed")
                 => /\ job_objs'[job_id].actions[i].status = "failed"
                    /\ job_objs'[job_id].actions[i].result = "str(e)"
                    /\ job_objs'[job_id].failed_actions = job_objs[job_id].failed_actions + 1
                    /\ job_objs'[job_id].successful_actions = job_objs[job_id].successful_actions
                    /\ job_objs'[job_id].status = job_objs[job_id].status
              /\ (Active(runs[r]) /\ Ended(runs'[r]))
                 => /\ job_objs'[job_id].status = "completed"
                    /\ runs'[r].attempted = n \/ job_objs[job_id].status = "cancelled"
      ]_vars

\* The only run of a job of two actions has ended: the first action failed,
\* the second was attempted and succeeded, and the job is completed.
C17_Witness ==
    \E r \in DOMAIN runs :
        /\ Len(runs) = 1
        /\ runs[r].pc = "done"
        /\ runs[r].attempted = 2
        /\ LET job == job_objs[runs[r].job]
           IN  /\ Len(job.actions) = 2
               /\ job.actions[1].status = "failed" /\ job.actions[1].result = "str(e)"
               /\ job.actions[2].status = "completed"
               /\ job.failed_actions = 1
               /\ job.status = "completed"

\* C18: a run that was under way when cancel_job was called for its job
\* starts no further action: the action it was awaiting may return, after
\* which the run leaves the loop.
C18_NoActionAfterCancel ==
    [][\A r \in DOMAIN runs :
          runs[r].cancelled => ~(runs[r].pc = "sleep" /\ runs'[r].pc = "action")
      ]_vars

\* A proxy of the pool no account holds
Unassigned == {i \in DOMAIN proxies : proxies[i] \notin Range(proxy_assignments)}

\* C15: assign_proxy_to_phone without a proxy returns the first proxy of the
\* pool that is alive and unassigned, otherwise the first unassigned one, and
\* None exactly when the pool has no unassigned proxy; when it returns None
\* the assignments are as before.  Stated for calls made when assigned_to
\* agrees with the assignments on every proxy of the pool.
C15_FirstFreeOrNull ==
    [][(/\ assign_call'.tick # assign_call.tick
        /\ assign_call'.op = "assign" /\ assign_call'.proxy = 0
        /\ \A i \in DOMAIN proxies :
              heap[proxies[i]].assigned_to = NoPhone <=> i \in Unassigned)
       => LET alive == {i \in Unassigned : heap[proxies[i]].status = "alive"}
              First(S) == proxies[CHOOSE i \in S : \A j \in S : i <= j]
              expected == IF alive # {} THEN First(alive)
                          ELSE IF Unassigned # {} THEN First(Unassigned)
                          ELSE 0
          IN  /\ assign_call'.result = expected
              /\ assign_call'.result = 0 => proxy_assignments' = proxy_assignments
      ]_vars

\* C16: auto_assign_proxies leaves every phone that has a proxy with that
\* proxy and returns it for the phones of the call; a call that follows one
\* for the same phones, with no other call between, changes neither the
\* assignments nor the proxies and returns the same dict.
C16_AutoAssignIdempotent ==
    [][(assign_call'.tick # assign_call.tick /\ assign_call'.op = "auto")
       => /\ \A p \in DOMAIN proxy_assignments :
                /\ p \in DOMAIN proxy_assignments'
                /\ proxy_assignments'[p] = proxy_assignments[p]
                /\ p \in Range(assign_call'.phones) =>
                      /\ p \in DOMAIN assign_call'.result
                      /\ assign_call'.result[p] = proxy_assignments[p]
          /\ assign_call'.again =>
                /\ proxy_assignments' = proxy_assignments
                /\ heap' = heap
                /\ assign_call'.result = assign_call.result
      ]_vars

\* A second call for 100 and 200 over a pool of two proxies has returned a
\* proxy for each.
C16_Witness ==
    /\ assign_call.op = "auto" /\ assign_call.again
    /\ assign_call.phones = <<"100", "200">>
    /\ DOMAIN assign_call.result = {"100", "200"}
    /\ assign_call.result["100"] # assign_call.result["200"]
    /\ proxy_assignments = assign_call.result

\* C22: since the last clear_assignments, every call for a phone has returned
\* the DeviceInfo the first call for that phone returned, field for field,
\* and that DeviceInfo is the phone's assignment: no operation but
\* clear_assignments changes or removes it.
C22_AssignmentKept ==
    /\ DOMAIN device_returned.first = DOMAIN device_assignments
    /\ \A phone \in DOMAIN device_assignments :
          device_assignments[phone] = device_returned.first[phone]
    /\ device_returned.phone \in DOMAIN device_returned.first =>
          device_returned.result = device_returned.first[device_returned.phone]

\* Two phones have a device and the last call, for the phone that got its
\* device first, returned it again.
C22_Witness ==
    /\ DOMAIN device_assignments = {"100", "200"}
    /\ device_returned.phone = "100"
    /\ device_returned.result = device_assignments["100"]
    /\ device_assignments["100"] # device_assignments["200"]
    /\ device_returned.later

\* C24: when a task of check_all_proxies has ended, its proxy is dead exactly
\* when the port was unreachable: a reachable port gives alive whatever the
\* HTTP probe did.
C24_ReachableIsAlive ==
    \A c \in DOMAIN check_all : \A i \in DOMAIN check_all[c].tasks :
        check_all[c].tasks[i] \in {"True", "False"} =>
            (heap[check_all[c].pool[i]].status = "dead" <=> ~check_all[c].reached[i])

\* C25: while check_all_proxies runs, the probes in progress (the proxies
\* with status checking) are never more than the permits of its semaphore,
\* which are at most 10.
C25_AtMostGateProbes ==
    \A c \in DOMAIN check_all :
        /\ Cardinality({i \in DOMAIN check_all[c].pool :
                          heap[check_all[c].pool[i]].status = "checking"})
              <= check_all[c].gate
        /\ Cardinality(InGate(check_all[c])) <= check_all[c].gate
        /\ check_all[c].gate <= Semaphore

\* Behind a gate of 2, two of three proxies are being probed and the third
\* task waits for a permit.
C25_Witness ==
    \E c \in DOMAIN check_all :
        /\ check_all[c].gate = 2
        /\ Len(check_all[c].pool) = 3
        /\ Cardinality(InGate(check_all[c])) = 2
        /\ \E i \in DOMAIN check_all[c].tasks : check_all[c].tasks[i] = "created"

\* C23: a run that was under way when cancel_job was called, and that leaves
\* its loop on finding the job cancelled, ends with the job's status still
\* cancelled.
C23_CancelledStays ==
    [][\A r \in DOMAIN runs :
          (/\ runs[r].cancelled
           /\ Active(runs[r]) /\ Ended(runs'[r])
           /\ job_objs[runs[r].job].status = "cancelled")
          => job_objs'[runs[r].job].status = "cancelled"
      ]_vars

\* C30: when create_warmup_job has returned, the new job is in the live set;
\* called with a schedule, the job is scheduled and the scheduler holds a
\* trigger under its id; called without one, the job is pending and has no
\* trigger.
C30_CreatedJobState ==
    \A c \in DOMAIN warmup_call :
        warmup_call[c].job_id # 0 =>
            LET job_id == warmup_call[c].job_id
            IN  /\ job_id \in jobs
                /\ IF warmup_call[c].schedule # NoSchedule
                   THEN /\ job_objs[job_id].status = "scheduled"
                        /\ job_id \in scheduler_jobs
                   ELSE /\ job_objs[job_id].status = "pending"
                        /\ job_id \notin scheduler_jobs

\* C27: when the chosen action is a react, reply, sticker or gif and it
\* fails with a transport error, the text is sent as a plain message in the
\* same iteration
C27_FailsSoftToMessage ==
    \A l \in DOMAIN loops :
        (loops[l].turn.action \in Actions \ {"msg"} /\ loops[l].turn.raised)
            => loops[l].turn.plain # "None"

\* C28: a text sent as a plain message or as a reply is appended to the
\* history of the group after the send
C28_SentIsAppended ==
    \A l \in DOMAIN loops :
        (loops[l].turn.plain = "ok" \/ loops[l].turn.reply = "ok")
            => loops[l].turn.appended

\* C26: topic_energy is kept per group: the counter a message of a group
\* decrements was last assigned by a message or refresh of that same group,
\* never by the processing of another group
C26_EnergyPerGroup ==
    \A l \in DOMAIN loops :
        loops[l].g # 0 =>
            loops[l].found_group \in {NoGroup, loops[l].groups[loops[l].g].id}

C29_HistoryBounded == history_count <= HistoryKept

\* C39: one message iteration performs at most one outbound action on the
\* group: a reaction, sticker or gif that went out is not followed by a
\* plain message or a reply in the same iteration
C39_OneActionPerIteration ==
    \A l \in DOMAIN loops :
        loops[l].turn.extra
            => (loops[l].turn.plain # "ok" /\ loops[l].turn.reply # "ok")

\* C38: at most one orchestrator loop is running at any time: no two loops
\* that have not ended manage the same group
C38_OneLoopAtATime ==
    \A l1, l2 \in DOMAIN loops :
        (/\ l1 # l2
         /\ loops[l1].pc # "stopped"
         /\ loops[l2].pc # "stopped")
            => {loops[l1].groups[i].id : i \in DOMAIN loops[l1].groups}
                 \cap {loops[l2].groups[i].id : i \in DOMAIN loops[l2].groups} = {}

\* The step is one of the task of loop l, not a start or stop request
Stepped(l) ==
    [loops'[l] EXCEPT !.stop_seen = loops[l].stop_seen,
                      !.unresolvable = loops[l].unresolvable] # loops[l]

\* The list positions of the groups of loop l whose body raised in this step
NewRaised(l) ==
    IF ~Stepped(l) THEN {}
    ELSE IF loops[l].pc \in {"start", "round_pause"} THEN loops'[l].raised
    ELSE loops'[l].raised \ loops[l].raised

\* A group the for loop cannot pass without an await: flagged active, with a
\* numeric platform id, and every member with a session file
Attended(group) ==
    /\ IsActive(auto_chat_active, group.id)
    /\ group.telegram_group_id = "ok"
    /\ group.all_members # NoMembers
    /\ \A m \in DOMAIN group.all_members : group.all_members[m] \in SessionFiles

\* C33: an exception raised while a group is processed skips only that
\* group: the loop does not stop, and no later group that is active and can
\* be processed is passed over in the same round; the next group processed
\* comes later in the list
C33_RaiseSkipsOnlyGroup ==
    [][\A l \in DOMAIN loops : \A k \in NewRaised(l) :
          /\ loops'[l].pc # "stopped"
          /\ \A j \in (k + 1)..Len(loops[l].groups) :
                Attended(loops[l].groups[j])
                    => (k < loops'[l].g /\ loops'[l].g <= j)]_vars

C33_Witness ==
    \E l \in DOMAIN loops :
        /\ loops[l].raised # {}
        /\ loops[l].pc = "send"
        /\ \A k \in loops[l].raised : k < loops[l].g

\* C32: a job run and an orchestrator loop each have at most one session
\* connected at any time, and none when an action or message is over: a job
\* run outside connect..disconnect and a loop outside resolve..disconnect
\* have no session open, on the success path and on every failure path
C32_OneSessionAtATime ==
    /\ exec.open <= 1
    /\ exec.pc \in {"idle", "action", "connect", "sleep", "done"} => exec.open = 0
    /\ \A l \in DOMAIN loops :
          /\ loops[l].open <= 1
          /\ loops[l].pc \notin {"resolve", "send", "disconnect"} => loops[l].open = 0

C32_Witness ==
    /\ exec.pc = "sleep"
    /\ exec.i = NExec
    /\ \E l \in DOMAIN loops :
          /\ loops[l].pc = "pause"
          /\ loops[l].topic_energy < topic_energy_initial - 1

\* C31: a step in which cancel_job or delete_job of a job returns leaves no
\* trigger of that job in the scheduler, whether or not one was registered,
\* and a job without a trigger never gets one again, so that no triggered run
\* of it can start afterwards
C31_TriggerDetached ==
    [][\A j \in DOMAIN job_objs :
          /\ (\/ job_objs[j].status # "cancelled" /\ job_objs'[j].status = "cancelled"
              \/ j \in jobs /\ j \notin jobs' /\ history' = history)
                => j \notin scheduler_jobs'
          /\ j \notin scheduler_jobs => j \notin scheduler_jobs']_vars

C31_Witness ==
    \E j, k \in DOMAIN job_objs :
        /\ scheduler
        /\ job_objs[j].schedule_type # "once"
        /\ job_objs[j].status = "cancelled"
        /\ j \notin scheduler_jobs
        /\ job_objs[k].schedule_type = "once"
        /\ job_objs[k].status = "cancelled"

\* C35: for every job, successful_actions + failed_actions is at most
\* total_actions
C35_CountsWithinTotal ==
    \A j \in DOMAIN job_objs :
        job_objs[j].successful_actions + job_objs[j].failed_actions
            <= job_objs[j].total_actions

\* C36: when two runs of the same once job overlap, each action is executed
\* by only one of them, the job is in the history list exactly once when
\* both have ended, and neither run ends with the KeyError of
\* del self.jobs[job_id]
C36_OverlapHandled ==
    \A r \in DOMAIN runs :
        LET j == runs[r].job
        IN  (runs[r].overlapped /\ job_objs[j].schedule_type = "once")
                => /\ runs[r].pc # "KeyError"
                   /\ Cardinality({h \in DOMAIN history : history[h] = j}) <= 1
                   /\ job_objs[j].successful_actions + job_objs[j].failed_actions
                          <= job_objs[j].total_actions

\* C37: once delete_job of a job has returned while a run of it is suspended
\* between two actions, that run executes no further action, the job is not
\* added to the history list, and the run does not end with the KeyError of
\* del self.jobs[job_id]
C37_DeletedRunStops ==
    [][\A r \in DOMAIN runs :
          (/\ runs[r].pc = "sleep"
           /\ runs[r].job \notin jobs
           /\ runs[r].job \notin Range(history))
              => /\ runs'[r].pc \notin {"action", "KeyError"}
                 /\ runs[r].job \notin Range(history')]_vars


\* The hours of a bucket moved by the drawn shift, as line 228 moves them
Shifted(hours, shift) == [i \in 1..Len(hours) |-> (hours[i] + shift) % 24]

\* C34: a generated persona whose stream drew a shift of -2, -1, 1 or 2 has
\* that one shift applied (mod 24) to the weekday active hours, the weekend
\* active hours and the peak hours of its lifestyle's schedule, and all its
\* hours lie in 0..23.
C34_ShiftAllBuckets ==
    \A p \in DOMAIN personas \cap DOMAIN rng_memo :
        LET base == LIFESTYLE_SCHEDULES(personas[p].lifestyle)
            schedule == personas[p].schedule
            shift == rng_memo[p].shift
        IN  shift # 0 =>
                /\ schedule.weekday_active_hours = Shifted(base.weekday_active_hours, shift)
                /\ schedule.weekend_active_hours = Shifted(base.weekend_active_hours, shift)
                /\ schedule.peak_hours = Shifted(base.peak_hours, shift)
                /\ Range(schedule.weekday_active_hours) \cup Range(schedule.weekend_active_hours)
                       \cup Range(schedule.peak_hours) \subseteq 0..23


\* C40: every proxy the assignments record for a phone is in the current pool
\* (as the same object, or as an object equal to it field by field) and has
\* that phone as its assigned_to.
C40_AssignedInPool ==
    \A phone \in DOMAIN proxy_assignments :
        /\ \E i \in DOMAIN proxies : heap[proxies[i]] = heap[proxy_assignments[phone]]
        /\ heap[proxy_assignments[phone]].assigned_to = phone

====
